---- MODULE Spec2Model ----
(***************************************************************************)
(* A model of the t2w extraction engine (src/parser.py): slug derivation,  *)
(* menu extraction, content-block extraction and the export aggregator.    *)
(* Text is modelled as character strings; every string function of the     *)
(* source (strip, lower, replace, startswith, endswith, urlparse().path)   *)
(* is computed character by character.  The module also holds the          *)
(* start-migration route of src/app.py, MigrationManager.start_migration   *)
(* (src/migration.py) and the ProgressTracker (src/progress_tracker.py).   *)
(***************************************************************************)
EXTENDS Integers, Sequences, FiniteSets, TLC

VARIABLES
    pc,          \* which call is in progress / finished
    filepath,    \* get_page_slug: path of the source file
    og_content,  \* get_page_slug: content of <meta property="og:url">, "" if absent
    slug,        \* get_page_slug: the returned slug
    soup,        \* parse_page_content: the document handed to the call
    gone,        \* parse_page_content: the nodes decomposed out of the soup
    result,      \* parse_page_content: per include_images, what the call returned
    menu,        \* parse_menu: what the call returned
    fs,              \* parse_tilda_export: the extracted tree on disk
    include_images,  \* parse_tilda_export: the flag of the calls
    run,             \* parse_tilda_export: number of the call in progress
    html_files,      \* parse_tilda_export: the discovered documents
    page_index,      \* parse_tilda_export: position of the page loop
    structured_data, \* parse_tilda_export: the export being built
    outcome,         \* parse_tilda_export: per call, what the caller got
    two_files,       \* get_combined_soup: the shell file and its fragment file
    combined,        \* get_combined_soup: what the call returned
    active_migrations, \* app: project -> the manager registered as running
    requests,          \* app: the start-migration requests and their threads
    parsed_data,       \* migration: what load_parsed_data and the site will answer
    manager,           \* migration: the MigrationManager inside start_migration
    wp,                \* migration: the pages of the WordPress site
    history,           \* migration: the pages handed to _migrate_single_page
    tracker,           \* ProgressTracker.status
    lock,              \* ProgressTracker.lock: the thread holding it, 0 if free
    threads            \* ProgressTracker: the callers and what they have seen

slugVars == <<filepath, og_content, slug>>
contentVars == <<soup, gone, result>>
menuVars == <<menu>>
exportVars == <<fs, include_images, run, html_files, page_index, structured_data, outcome>>
mergeVars == <<two_files, combined>>

startVars == <<active_migrations, requests>>
migrationVars == <<parsed_data, manager, wp, history>>
trackerVars == <<tracker, lock, threads>>

vars == <<pc, slugVars, contentVars, menuVars, exportVars, mergeVars,
          startVars, migrationVars, trackerVars>>

NULL == "<none>"

(***************************************************************************)
(* Python str methods                                                      *)
(***************************************************************************)
\* the slice s[a-1:b] of Python (1-based, inclusive, clipped to the string)
Max2(a, b) == IF a > b THEN a ELSE b
Min2(a, b) == IF a < b THEN a ELSE b

Mid(s, a, b) ==
    IF Max2(a, 1) > Min2(b, Len(s)) THEN "" ELSE SubSeq(s, Max2(a, 1), Min2(b, Len(s)))

Ch(s, i) == Mid(s, i, i)

StartsWith(s, p) == Len(s) >= Len(p) /\ Mid(s, 1, Len(p)) = p

EndsWith(s, p) == Len(s) >= Len(p) /\ Mid(s, Len(s) - Len(p) + 1, Len(s)) = p

\* str.find(sub, start): 1-based index of the first occurrence at or after
\* from, 0 when there is none
RECURSIVE Find(_, _, _)
Find(s, sub, from) ==
    IF from + Len(sub) - 1 > Len(s) THEN 0
    ELSE IF Mid(s, from, from + Len(sub) - 1) = sub THEN from
    ELSE Find(s, sub, from + 1)

Contains(s, sub) == Find(s, sub, 1) > 0

\* str.replace(old, new): every non-overlapping occurrence, left to right
RECURSIVE Replace(_, _, _)
Replace(s, old, new) ==
    IF ~Contains(s, old) THEN s
    ELSE Mid(s, 1, Find(s, old, 1) - 1) \o new
         \o Replace(Mid(s, Find(s, old, 1) + Len(old), Len(s)), old, new)

UpperChars == {"A", "B", "C", "D", "E", "F", "G", "H", "I", "J", "K", "L", "M",
               "N", "O", "P", "Q", "R", "S", "T", "U", "V", "W", "X", "Y", "Z"}
LowerChars == {"a", "b", "c", "d", "e", "f", "g", "h", "i", "j", "k", "l", "m",
               "n", "o", "p", "q", "r", "s", "t", "u", "v", "w", "x", "y", "z"}
Digits == {"0", "1", "2", "3", "4", "5", "6", "7", "8", "9"}
Whitespace == {" ", "\n", "\t"}

UpperSeq == "ABCDEFGHIJKLMNOPQRSTUVWXYZ"
LowerSeq == "abcdefghijklmnopqrstuvwxyz"

LowerCh(c) ==
    IF c \in UpperChars THEN Ch(LowerSeq, Find(UpperSeq, c, 1)) ELSE c

\* str.lower()
RECURSIVE Lower(_)
Lower(s) ==
    IF Len(s) = 0 THEN s ELSE LowerCh(Ch(s, 1)) \o Lower(Mid(s, 2, Len(s)))

\* str.lstrip(), str.rstrip(), str.strip()
RECURSIVE LStrip(_)
LStrip(s) ==
    IF Len(s) > 0 /\ Ch(s, 1) \in Whitespace THEN LStrip(Mid(s, 2, Len(s))) ELSE s

RECURSIVE RStrip(_)
RStrip(s) ==
    IF Len(s) > 0 /\ Ch(s, Len(s)) \in Whitespace
    THEN RStrip(Mid(s, 1, Len(s) - 1)) ELSE s

Strip(s) == LStrip(RStrip(s))

\* str.count(c) for a single character
RECURSIVE Count(_, _)
Count(s, c) ==
    IF Len(s) = 0 THEN 0
    ELSE (IF Ch(s, 1) = c THEN 1 ELSE 0) + Count(Mid(s, 2, Len(s)), c)

\* index of the last occurrence of character c, 0 when there is none
RECURSIVE RFind(_, _)
RFind(s, c) ==
    IF Len(s) = 0 THEN 0
    ELSE IF Ch(s, Len(s)) = c THEN Len(s)
    ELSE RFind(Mid(s, 1, Len(s) - 1), c)

\* os.path.basename
Basename(path) == Mid(path, RFind(path, "/") + 1, Len(path))

(***************************************************************************)
(* urllib.parse.urlparse(url).path                                         *)
(***************************************************************************)
SchemeChars == UpperChars \cup LowerChars \cup Digits \cup {"+", "-", "."}

\* the smallest positive member of S; dflt when there is none
MinPos(S, dflt) ==
    IF \A x \in S : x <= 0 THEN dflt
    ELSE CHOOSE x \in S : x > 0 /\ \A y \in S : y > 0 => x <= y

\* everything before the first occurrence of character c (all of s if none)
Before(s, c) == IF Contains(s, c) THEN Mid(s, 1, Find(s, c, 1) - 1) ELSE s

\* url.find(':') gave i (1-based): a scheme is split off when it is not at
\* the first position, the first character is a letter and all are scheme
\* characters
HasScheme(url, i) ==
    /\ i > 1
    /\ Ch(url, 1) \in UpperChars \cup LowerChars
    /\ \A k \in 1..(i - 1) : Ch(url, k) \in SchemeChars

DropScheme(url, i) == IF HasScheme(url, i) THEN Mid(url, i + 1, Len(url)) ELSE url

\* _splitnetloc(url, 2): the domain ends at the first of / ? #
DropNetloc(u) ==
    IF Mid(u, 1, 2) = "//"
    THEN Mid(u, MinPos({Find(u, "/", 3), Find(u, "?", 3), Find(u, "#", 3)},
                       Len(u) + 1), Len(u))
    ELSE u

SplitUrl(url) == Before(Before(DropNetloc(DropScheme(url, Find(url, ":", 1))), "#"), "?")

UrlPath(url0) == SplitUrl(LStrip(url0))

(***************************************************************************)
(* get_page_slug                                                           *)
(***************************************************************************)
\* path.endswith('.html') -> path[:-5]
StripHtmlExt(path) ==
    IF EndsWith(path, ".html") THEN Mid(path, 1, Len(path) - 5) ELSE path

\* root path, then the leading "/"
RootOrSlashed(path) ==
    IF path = "" \/ path = "/" THEN "/"
    ELSE IF ~StartsWith(path, "/") THEN "/" \o path
    ELSE path

\* the og:url branch (tag present with a non-empty content)
SlugFromOgUrl(content) == RootOrSlashed(StripHtmlExt(UrlPath(Strip(content))))

IndexOrSlashed(s) == IF Lower(s) = "index" THEN "/" ELSE "/" \o s

\* the filename fallback
SlugFromFilename(fp) == IndexOrSlashed(Replace(Basename(fp), ".html", ""))

get_page_slug(fp, content) ==
    IF content # "" THEN SlugFromOgUrl(content) ELSE SlugFromFilename(fp)

(***************************************************************************)
(* The parsed document (BeautifulSoup tree).  A document is the sequence   *)
(* of its nodes in document (pre-order) order; node k names its parent by  *)
(* index, 0 being the BeautifulSoup object itself.  A node is a tag or a   *)
(* text node (name "#text", its string in str).  decompose() is modelled   *)
(* by a set `gone` of removed nodes, closed under descendants.             *)
(***************************************************************************)
El(par, nm, cls) ==
    [parent |-> par, name |-> nm, class |-> cls, id |-> "", style |-> "",
     etype |-> "", href |-> "", src |-> "", dataorig |-> "", alt |-> "",
     hook |-> "",
     role |-> "", str |-> ""]

Txt(par, t) == [El(par, "#text", {}) EXCEPT !.str = t]

IsTag(d, k) == d[k].name # "#text"

\* a is a proper ancestor of node n
RECURSIVE IsAncestor(_, _, _)
IsAncestor(d, a, n) ==
    IF n = 0 THEN FALSE
    ELSE IF d[n].parent = a THEN TRUE
    ELSE IsAncestor(d, a, d[n].parent)

Ancestors(d, n) == {a \in 1..Len(d) : IsAncestor(d, a, n)}

\* the nodes of the subtree below n (n excluded), as find_all(True) and
\* get_text walk them
Descendants(d, n) == {k \in 1..Len(d) : IsAncestor(d, n, k)}

\* the set S in document order
RECURSIVE InOrder(_)
InOrder(S) ==
    IF S = {} THEN <<>>
    ELSE <<CHOOSE x \in S : \A y \in S : x <= y>>
         \o InOrder(S \ {CHOOSE x \in S : \A y \in S : x <= y})

\* soup.find(...): the first node of S in document order, 0 (None) if none
First(S) == IF S = {} THEN 0 ELSE CHOOSE x \in S : \A y \in S : x <= y

\* Tag.get_text(strip=True): the stripped, non-empty strings below n, joined
RECURSIVE JoinText(_, _)
JoinText(d, ks) ==
    IF ks = <<>> THEN ""
    ELSE Strip(d[Head(ks)].str) \o JoinText(d, Tail(ks))

get_text(d, g, n) ==
    JoinText(d, InOrder({k \in Descendants(d, n) \ g : ~IsTag(d, k)}))

\* element.find_parent(names): some ancestor tag with one of the names
HasParentNamed(d, n, names) == \E a \in Ancestors(d, n) : d[a].name \in names

\* number of previous_sibling steps from node n
SiblingIndex(d, g, n) ==
    Cardinality({k \in 1..(n - 1) : k \notin g /\ d[k].parent = d[n].parent})

\* decompose(): the node and everything below it leave the tree
Decompose(d, g, n) == IF n = 0 THEN g ELSE g \cup {n} \cup Descendants(d, n)

(***************************************************************************)
(* str.isupper / str.istitle                                               *)
(***************************************************************************)
HasCased(t) == \E i \in 1..Len(t) : Ch(t, i) \in UpperChars \cup LowerChars

IsUpper(t) == HasCased(t) /\ \A i \in 1..Len(t) : Ch(t, i) \notin LowerChars

\* an uppercase character never follows a cased one, a lowercase one always
IsTitle(t) ==
    /\ HasCased(t)
    /\ \A i \in 1..Len(t) :
          /\ Ch(t, i) \in UpperChars =>
                (i = 1 \/ Ch(t, i - 1) \notin UpperChars \cup LowerChars)
          /\ Ch(t, i) \in LowerChars =>
                (i > 1 /\ Ch(t, i - 1) \in UpperChars \cup LowerChars)

(***************************************************************************)
(* parse_page_content                                                      *)
(***************************************************************************)
NavClasses == {"t228", "t794", "t-menu"}

TitleClasses == {"t585__title", "t567__title", "t221__title", "t205__title",
                 "t-name", "t-title", "__title", "__name"}

ContentClasses == {"t585__content", "t585__text", "t567__content", "t567__text",
                   "t221__content", "t221__text", "t205__content", "t205__text",
                   "t-descr", "__content", "__text"}

TextClasses == {"t-text", "t-title", "t-descr", "t-name"}

HeadingTags == {"h1", "h2", "h3", "h4", "h5", "h6"}

ButtonStoplist == {"call us", "contact", "menu", "home"}

MinTextLen == 3
MaxHeadingLen == 150
MinButtonLen == 2
MaxButtonLen == 50

\* soup.find('div', id='allrecords'), else soup.body, else 0 (return [])
MainContent(d, g) ==
    IF \E k \in 1..Len(d) : k \notin g /\ d[k].name = "div" /\ d[k].id = "allrecords"
    THEN First({k \in 1..Len(d) : k \notin g /\ d[k].name = "div" /\ d[k].id = "allrecords"})
    ELSE First({k \in 1..Len(d) : k \notin g /\ d[k].name = "body"})

\* class_=lambda x: x and any(c in x for c in [...]): some class of the node
\* has one of the navigation markers as a substring
HasNavMarker(d, k) == \E c \in d[k].class : \E m \in NavClasses : Contains(c, m)

\* header.decompose()
RemoveHeader(d, g, mc) ==
    Decompose(d, g, First({k \in Descendants(d, mc) \ g :
                              d[k].name = "header" /\ d[k].id = "t-header"}))

\* footer.decompose()
RemoveFooter(d, g, mc) ==
    Decompose(d, g, First({k \in Descendants(d, mc) \ g :
                              d[k].name = "footer" /\ d[k].id = "t-footer"}))

\* for nav in main_content.find_all(['nav', 'div'], class_=...): nav.decompose()
RemoveNav(d, g, mc) ==
    g \cup UNION {Decompose(d, {}, k) : k \in {n \in Descendants(d, mc) \ g :
                     d[n].name \in {"nav", "div"} /\ HasNavMarker(d, n)}}

\* lines 327-338: what is gone when the walk starts
Pruned(d, g, mc) == RemoveNav(d, RemoveFooter(d, RemoveHeader(d, g, mc), mc), mc)

\* main_content.find_all(True, recursive=True)
AllElements(d, g, mc) == InOrder({k \in Descendants(d, mc) \ g : IsTag(d, k)})

\* lines 352-355: elements the loop passes over
Skipped(d, e) ==
    \/ HasParentNamed(d, e, {"nav", "header", "footer"})
    \/ d[e].class \cap NavClasses # {}

\* element.find(names): a live descendant tag with one of the names
HasDescendantNamed(d, g, e, names) ==
    \E k \in Descendants(d, e) \ g : d[k].name \in names

\* the branch taken for every img, whatever include_images says
ImageGuardNoFlag(n, inc) == n.name = "img"

\* line 464: elif element.name == 'img' and include_images
ImageGuard(n, inc) == n.name = "img" /\ inc

\* the condition of each branch of the if/elif chain, lines 361-477
Guard(d, g, e, inc, r) ==
    CASE r = 1 -> "tn-atom" \in d[e].class
      [] r = 2 -> d[e].name = "span" /\ d[e].class \cap TitleClasses # {}
      [] r = 3 -> d[e].name \in {"div", "span", "p"} /\ d[e].class \cap ContentClasses # {}
      [] r = 4 -> /\ \E c \in d[e].class : Contains(c, "t396__elem")
                  /\ d[e].etype = "text"
                  /\ ~\E k \in Descendants(d, e) \ g :
                         d[k].name = "div" /\ "tn-atom" \in d[k].class
      [] r = 5 -> /\ d[e].name \in {"p", "div", "span"} \cup HeadingTags
                  /\ d[e].class \cap TextClasses # {}
      [] r = 6 -> /\ d[e].name \in HeadingTags \cup {"p"}
                  /\ ~\E a \in Ancestors(d, e) :
                         d[a].name = "div" /\ "tn-atom" \in d[a].class
                  /\ ~\E a \in Ancestors(d, e) :
                         /\ d[a].name = "div"
                         /\ \E c \in d[a].class : Contains(c, "t396__elem")
      [] r = 7 -> /\ d[e].name \in {"a", "button"}
                  /\ d[e].class \cap {"t-btn", "tn-atom"} # {}
                  /\ ~HasParentNamed(d, e, {"nav", "header", "footer"})
      [] r = 8 -> ImageGuard(d[e], inc)
      [] r = 9 -> /\ d[e].name \in {"ul", "ol"}
                  /\ ~\E a \in Ancestors(d, e) : d[a].name = "div" /\ HasNavMarker(d, a)
      [] OTHER -> FALSE

\* the chain written with "if" for "elif": the last matching branch decides
LastRule(d, g, e, inc) ==
    IF \E r \in 1..9 : Guard(d, g, e, inc, r)
    THEN CHOOSE r \in 1..9 :
            Guard(d, g, e, inc, r) /\ \A q \in (r + 1)..9 : ~Guard(d, g, e, inc, q)
    ELSE 0

\* the branch of the chain the element takes: the first whose condition
\* holds, 0 when none does
FirstRule(d, g, e, inc) ==
    IF \E r \in 1..9 : Guard(d, g, e, inc, r)
    THEN CHOOSE r \in 1..9 :
            Guard(d, g, e, inc, r) /\ \A q \in 1..(r - 1) : ~Guard(d, g, e, inc, q)
    ELSE 0

NoInfo == [type |-> "none"]

Info(tp, txt, hr, sr, al, its, pr) ==
    [type |-> tp, text |-> txt, href |-> hr, src |-> sr, alt |-> al,
     items |-> its, priority |-> pr]

\* text_content and len(text_content) > 3 and text_content not in processed_texts
FreshText(t, texts) == t # "" /\ Len(t) > MinTextLen /\ t \notin texts

HeadingOrParagraph(isHeading) == IF isHeading THEN "heading" ELSE "paragraph"

\* PRIORITY 1 with the style left out of the heading test
Rule1NoStyle(d, g, e, t, texts) ==
    IF HasDescendantNamed(d, g, e, {"img"}) /\ t = "" THEN NoInfo
    ELSE IF FreshText(t, texts)
    THEN Info(HeadingOrParagraph(
                 /\ Len(t) < MaxHeadingLen
                 /\ \/ IsUpper(t)
                    \/ IsTitle(t)
                    \/ HasDescendantNamed(d, g, e, HeadingTags)),
              t, "", "", "", <<>>, 1)
    ELSE NoInfo

\* PRIORITY 1, lines 361-380
Rule1(d, g, e, t, texts) ==
    IF HasDescendantNamed(d, g, e, {"img"}) /\ t = "" THEN NoInfo
    ELSE IF FreshText(t, texts)
    THEN Info(HeadingOrParagraph(
                 /\ Len(t) < MaxHeadingLen
                 /\ \/ IsUpper(t)
                    \/ IsTitle(t)
                    \/ HasDescendantNamed(d, g, e, HeadingTags)
                    \/ Contains(d[e].style, "font-weight:700")
                    \/ Contains(d[e].style, "font-weight:600")),
              t, "", "", "", <<>>, 1)
    ELSE NoInfo

\* PRIORITY 2, lines 383-392
Rule2(t, texts) ==
    IF FreshText(t, texts) THEN Info("heading", t, "", "", "", <<>>, 2) ELSE NoInfo

\* PRIORITY 3, lines 395-406
Rule3(t, texts) ==
    IF FreshText(t, texts) THEN Info("paragraph", t, "", "", "", <<>>, 3) ELSE NoInfo

\* PRIORITY 4, lines 409-420
Rule4(t, texts) ==
    IF FreshText(t, texts)
    THEN Info(HeadingOrParagraph(Len(t) < MaxHeadingLen /\ (IsUpper(t) \/ IsTitle(t))),
              t, "", "", "", <<>>, 4)
    ELSE NoInfo

\* PRIORITY 5, lines 423-434
Rule5(d, e, t, texts) ==
    IF FreshText(t, texts)
    THEN Info(HeadingOrParagraph(\/ StartsWith(d[e].name, "h")
                                 \/ "t-title" \in d[e].class
                                 \/ "t-name" \in d[e].class),
              t, "", "", "", <<>>, 5)
    ELSE NoInfo

\* PRIORITY 6, lines 437-446
Rule6(d, e, t, texts) ==
    IF FreshText(t, texts)
    THEN Info(HeadingOrParagraph(StartsWith(d[e].name, "h")), t, "", "", "", <<>>, 6)
    ELSE NoInfo

\* PRIORITY 7, lines 449-461
Rule7(d, e, t, texts) ==
    IF /\ t # ""
       /\ Len(t) > MinButtonLen
       /\ Len(t) < MaxButtonLen
       /\ t \notin texts
       /\ Lower(t) \notin ButtonStoplist
    THEN Info("button", t, d[e].href, "", "", <<>>, 7)
    ELSE NoInfo

\* element.get('src') or element.get('data-original')
ImgSrc(n) == IF n.src # "" THEN n.src ELSE n.dataorig

\* PRIORITY 8, lines 464-473
Rule8(d, e) ==
    IF ImgSrc(d[e]) # "" /\ ~StartsWith(ImgSrc(d[e]), "data:")
    THEN Info("image", "", "", ImgSrc(d[e]), d[e].alt, <<>>, 8)
    ELSE NoInfo

\* lines 478-482 without the test against processed_texts
RECURSIVE ListItemsKeepSeen(_, _, _, _)
ListItemsKeepSeen(d, g, lis, texts) ==
    IF lis = <<>> THEN <<>>
    ELSE (IF get_text(d, g, Head(lis)) # "" THEN <<get_text(d, g, Head(lis))>> ELSE <<>>)
         \o ListItemsKeepSeen(d, g, Tail(lis), texts)

\* lines 478-482: the texts of the li below the list, those empty or
\* already processed left out
RECURSIVE ListItems(_, _, _, _)
ListItems(d, g, lis, texts) ==
    IF lis = <<>> THEN <<>>
    ELSE (IF get_text(d, g, Head(lis)) # "" /\ get_text(d, g, Head(lis)) \notin texts
          THEN <<get_text(d, g, Head(lis))>> ELSE <<>>)
         \o ListItems(d, g, Tail(lis), texts)

\* PRIORITY 9, lines 476-492
Rule9(items) ==
    IF Len(items) > 1 THEN Info("list", "", "", "", "", items, 9) ELSE NoInfo

\* the element_info the chain leaves for element e
ElementInfo(d, g, e, inc, texts, r) ==
    CASE r = 1 -> Rule1(d, g, e, get_text(d, g, e), texts)
      [] r = 2 -> Rule2(get_text(d, g, e), texts)
      [] r = 3 -> Rule3(get_text(d, g, e), texts)
      [] r = 4 -> Rule4(get_text(d, g, e), texts)
      [] r = 5 -> Rule5(d, e, get_text(d, g, e), texts)
      [] r = 6 -> Rule6(d, e, get_text(d, g, e), texts)
      [] r = 7 -> Rule7(d, e, get_text(d, g, e), texts)
      [] r = 8 -> Rule8(d, e)
      [] r = 9 -> Rule9(ListItems(d, g,
                     InOrder({k \in Descendants(d, e) \ g : d[k].name = "li"}), texts))
      [] OTHER -> NoInfo

\* lines 497-501 and 504-513: the sibling indices of the ancestors below
\* main_content, outermost first
RECURSIVE ParentPositions(_, _, _, _)
ParentPositions(d, g, mc, a) ==
    IF a = 0 \/ a = mc THEN <<>>
    ELSE Append(ParentPositions(d, g, mc, d[a].parent), SiblingIndex(d, g, a))

\* line 515: (tuple(reversed(parent_positions)), position)
Position(d, g, mc, e) ==
    <<ParentPositions(d, g, mc, d[e].parent), SiblingIndex(d, g, e)>>

\* lines 491-492 left out: the items of a list are not marked
MarkedTextsNoItems(info) ==
    IF info.type \in {"heading", "paragraph", "button"} THEN {info.text} ELSE {}

\* what lines 491-492 and 520-521 add to processed_texts
MarkedTexts(info) ==
    IF info.type = "list" THEN {info.items[i] : i \in 1..Len(info.items)}
    ELSE IF info.type \in {"heading", "paragraph", "button"} THEN {info.text}
    ELSE {}

\* lines 495-524: a found element_info becomes a candidate
Record(d, g, mc, e, st, info) ==
    IF info.type = "none" THEN st
    ELSE [cands |-> Append(st.cands,
                       info @@ [position |-> Position(d, g, mc, e), element |-> e]),
          texts |-> st.texts \cup MarkedTexts(info)]

\* one iteration of the loop of line 350
Visit(d, g, mc, inc, st, e) ==
    IF Skipped(d, e) THEN st
    ELSE Record(d, g, mc, e, st,
                ElementInfo(d, g, e, inc, st.texts, FirstRule(d, g, e, inc)))

RECURSIVE Walk(_, _, _, _, _, _)
Walk(d, g, mc, inc, st, es) ==
    IF es = <<>> THEN st
    ELSE Walk(d, g, mc, inc, Visit(d, g, mc, inc, st, Head(es)), Tail(es))

\* Python's order on tuples of integers
RECURSIVE TupleLess(_, _)
TupleLess(a, b) ==
    IF b = <<>> THEN FALSE
    ELSE IF a = <<>> THEN TRUE
    ELSE IF Head(a) # Head(b) THEN Head(a) < Head(b)
    ELSE TupleLess(Tail(a), Tail(b))

\* Python's order on the position keys (tuple, int)
KeyLess(k1, k2) ==
    IF k1[1] # k2[1] THEN TupleLess(k1[1], k2[1]) ELSE k1[2] < k2[2]

\* c goes behind every candidate whose key is not greater (a stable sort)
RECURSIVE InsertSorted(_, _)
InsertSorted(sorted, c) ==
    IF sorted = <<>> THEN <<c>>
    ELSE IF KeyLess(c.position, Head(sorted).position) THEN <<c>> \o sorted
    ELSE <<Head(sorted)>> \o InsertSorted(Tail(sorted), c)

\* line 527: content_candidates.sort(key=lambda x: x['position'])
RECURSIVE SortCandidates(_)
SortCandidates(cs) ==
    IF cs = <<>> THEN <<>>
    ELSE InsertSorted(SortCandidates(SubSeq(cs, 1, Len(cs) - 1)), cs[Len(cs)])

\* lines 530-532: position, element and priority are dropped
FinalItem(c) ==
    [type |-> c.type, text |-> c.text, href |-> c.href, src |-> c.src,
     alt |-> c.alt, items |-> c.items]

FinalContent(cs) == [i \in 1..Len(cs) |-> FinalItem(cs[i])]

\* the loop over all_elements, from empty processed_texts and candidates
WalkAll(d, g, mc, inc) ==
    Walk(d, g, mc, inc, [cands |-> <<>>, texts |-> {}], AllElements(d, g, mc))

\* the soup after lines 327-338
GoneAfter(d, g) ==
    IF MainContent(d, g) = 0 THEN g ELSE Pruned(d, g, MainContent(d, g))

\* content_candidates after the sort of line 527
SortedCandidates(d, g, inc) ==
    IF MainContent(d, g) = 0 THEN <<>>
    ELSE SortCandidates(WalkAll(d, GoneAfter(d, g), MainContent(d, g), inc).cands)

parse_page_content(d, g, inc) == FinalContent(SortedCandidates(d, g, inc))

(***************************************************************************)
(* CSS selectors (soup.select / select_one).  A selector is a compound     *)
(* tag.class[class*=sub][role=role], alone or as the right side of          *)
(* "left > right" (rel "child") or "left right" (rel "desc").              *)
(***************************************************************************)
Sel(tg, cl, sb, rl) ==
    [tag |-> tg, cls |-> cl, sub |-> sb, role |-> rl, rel |-> "",
     ltag |-> "", lcls |-> ""]

Under(rl, ltg, lcl, sel) == [sel EXCEPT !.rel = rl, !.ltag = ltg, !.lcls = lcl]

SimpleMatch(n, tg, cl, sb, rl) ==
    /\ n.name # "#text"
    /\ tg = "" \/ n.name = tg
    /\ cl = "" \/ cl \in n.class
    /\ sb = "" \/ \E c \in n.class : Contains(c, sb)
    /\ rl = "" \/ n.role = rl

Matches(d, k, sel) ==
    /\ SimpleMatch(d[k], sel.tag, sel.cls, sel.sub, sel.role)
    /\ CASE sel.rel = "child" ->
                /\ d[k].parent # 0
                /\ SimpleMatch(d[d[k].parent], sel.ltag, sel.lcls, "", "")
         [] sel.rel = "desc" ->
                \E a \in Ancestors(d, k) : SimpleMatch(d[a], sel.ltag, sel.lcls, "", "")
         [] OTHER -> TRUE

\* scope.select(selector list): the matching nodes below scope, in document
\* order (scope 0 is the soup)
Select(d, scope, sels) ==
    InOrder({k \in Descendants(d, scope) : \E sel \in sels : Matches(d, k, sel)})

\* soup.select_one(selector list): 0 is None
SelectOne(d, sels) == First({k \in 1..Len(d) : \E sel \in sels : Matches(d, k, sel)})

\* the first position from i on in a sequence of selector lists whose
\* selection below scope is not empty; 0 when there is none
RECURSIVE FirstMatching(_, _, _, _)
FirstMatching(d, scope, selSeq, i) ==
    IF i > Len(selSeq) THEN 0
    ELSE IF Select(d, scope, selSeq[i]) # <<>> THEN i
    ELSE FirstMatching(d, scope, selSeq, i + 1)

(***************************************************************************)
(* parse_menu                                                              *)
(***************************************************************************)
\* lines 103-114
NavigationSelectors ==
    << {Sel("nav", "t228__centercontainer", "", "")},
       {Sel("nav", "t456__rightwrapper", "", "")},
       {Sel("nav", "t-menu", "", "")},
       {Sel("div", "t-menu", "", "")},
       {Sel("nav", "", "menu", "")},
       {Sel("div", "", "menu", "")} >>

\* line 142
FallbackUlSelector ==
    {Sel("ul", "t-menu__list", "", ""), Sel("ul", "", "menu", ""), Sel("ul", "", "list", "")}

LinkItem == Sel("a", "t-menu__link-item", "", "")

\* lines 162-166
AlternativeSelectors ==
    << {LinkItem}, {Sel("a", "", "menu", "")}, {Under("child", "li", "", Sel("a", "", "", ""))} >>

\* lines 224-230
SubmenuSelectors ==
    << {Under("desc", "", "t794__list_item", Sel("a", "", "", ""))},
       {Sel("", "t794__link", "", "")},
       {Sel("a", "", "", "menuitem")},
       {Under("desc", "li", "", Sel("a", "", "", ""))},
       {Sel("a", "", "", "")} >>

\* lines 120-147: the navigation container, 0 when there is none
FindNav(d) ==
    IF FirstMatching(d, 0, NavigationSelectors, 1) > 0
    THEN SelectOne(d, NavigationSelectors[FirstMatching(d, 0, NavigationSelectors, 1)])
    ELSE SelectOne(d, FallbackUlSelector)

\* lines 128-134 and 144
MenuListSelector(d, nav) ==
    IF FirstMatching(d, 0, NavigationSelectors, 1) = 0 THEN LinkItem
    ELSE IF "t228" \in d[nav].class THEN Under("child", "", "t228__list_item", LinkItem)
    ELSE IF "t456" \in d[nav].class THEN Under("child", "", "t456__list_item", LinkItem)
    ELSE LinkItem

\* lines 155-172
MainMenuLinks(d, nav) ==
    IF Select(d, nav, {MenuListSelector(d, nav)}) # <<>>
    THEN Select(d, nav, {MenuListSelector(d, nav)})
    ELSE IF FirstMatching(d, nav, AlternativeSelectors, 1) = 0 THEN <<>>
    ELSE Select(d, nav, AlternativeSelectors[FirstMatching(d, nav, AlternativeSelectors, 1)])

\* the title with its case kept
TitleSlugKeepCase(title) == "/" \o Replace(title, " ", "-")

\* f"/{title.lower().replace(' ', '-')}"
TitleSlug(title) == "/" \o Replace(Lower(title), " ", "-")

IsExternal(href) ==
    StartsWith(href, "http") \/ StartsWith(href, "mailto:") \/ StartsWith(href, "tel:")

\* lines 288-298
DirectSlug(title, href) ==
    IF StartsWith(href, "/") THEN href
    ELSE IF EndsWith(href, ".html")
    THEN (IF Replace(href, ".html", "") = "index" THEN "/"
          ELSE "/" \o Replace(href, ".html", ""))
    ELSE IF IsExternal(href) THEN href
    ELSE TitleSlug(title)

\* lines 252-255
SubSlug(sub_href) ==
    IF sub_href # "" /\ ~IsExternal(sub_href)
    THEN (IF StartsWith(sub_href, "/") THEN sub_href ELSE "/" \o sub_href)
    ELSE sub_href

\* the loop of line 240 with the title test of lines 248-249 left out
RECURSIVE SubmenuListNoSkip(_, _)
SubmenuListNoSkip(d, links) ==
    IF links = <<>> THEN <<>>
    ELSE <<[title |-> get_text(d, {}, Head(links)), slug |-> SubSlug(d[Head(links)].href)]>>
         \o SubmenuListNoSkip(d, Tail(links))

\* lines 240-257: the children, links without a title left out
RECURSIVE SubmenuList(_, _)
SubmenuList(d, links) ==
    IF links = <<>> THEN <<>>
    ELSE (IF get_text(d, {}, Head(links)) = "" THEN <<>>
          ELSE <<[title |-> get_text(d, {}, Head(links)),
                  slug |-> SubSlug(d[Head(links)].href)]>>)
         \o SubmenuList(d, Tail(links))

\* soup.find('div', {'data-tooltip-hook': hook}): 0 is None
FindHook(d, hook) ==
    First({k \in 1..Len(d) : d[k].name = "div" /\ d[k].hook # "" /\ d[k].hook = hook})

\* lines 203-219: the exact hook, then without, then with a space after the
\* colon
FindPanel(d, href) ==
    IF FindHook(d, Strip(href)) # 0 THEN FindHook(d, Strip(href))
    ELSE IF FindHook(d, Replace(href, "#submenu: ", "#submenu:")) # 0
    THEN FindHook(d, Replace(href, "#submenu: ", "#submenu:"))
    ELSE FindHook(d, Replace(href, "#submenu:", "#submenu: "))

\* lines 232-238
SubmenuLinks(d, panel) ==
    IF FirstMatching(d, panel, SubmenuSelectors, 1) = 0 THEN <<>>
    ELSE Select(d, panel, SubmenuSelectors[FirstMatching(d, panel, SubmenuSelectors, 1)])

\* the parent's slug built from the title whatever the first child
ParentSlugFromTitle(title, first_child_slug) == TitleSlug(title)

\* lines 261-269
ParentSlug(title, first_child_slug) ==
    IF Count(first_child_slug, "/") > 1
    THEN (IF RFind(first_child_slug, "/") > 1
          THEN Mid(first_child_slug, 1, RFind(first_child_slug, "/") - 1)
          ELSE "/")
    ELSE TitleSlug(title)

\* lines 259-279
WithSubmenu(title, submenu_list) ==
    IF submenu_list # <<>>
    THEN [title |-> title, slug |-> ParentSlug(title, submenu_list[1].slug),
          submenu |-> submenu_list]
    ELSE [title |-> title, slug |-> TitleSlug(title), submenu |-> <<>>]

\* lines 195-303: the menu item of one link
MenuItem(d, title, href) ==
    IF StartsWith(href, "#submenu:")
    THEN (IF FindPanel(d, href) # 0
          THEN WithSubmenu(title, SubmenuList(d, SubmenuLinks(d, FindPanel(d, href))))
          ELSE [title |-> title, slug |-> TitleSlug(title), submenu |-> <<>>])
    ELSE [title |-> title, slug |-> DirectSlug(title, href), submenu |-> <<>>]

\* line 190
SkipTitle(title) == title = "" \/ Lower(title) \in {"menu", ""}

\* lines 182-303
RECURSIVE MenuOf(_, _)
MenuOf(d, links) ==
    IF links = <<>> THEN <<>>
    ELSE (IF SkipTitle(get_text(d, {}, Head(links))) THEN <<>>
          ELSE <<MenuItem(d, get_text(d, {}, Head(links)), d[Head(links)].href)>>)
         \o MenuOf(d, Tail(links))

parse_menu(d) ==
    IF FindNav(d) = 0 THEN <<>> ELSE MenuOf(d, MainMenuLinks(d, FindNav(d)))

(***************************************************************************)
(* Inputs of get_page_slug: file paths under the extraction root and       *)
(* og:url contents built from a host prefix and up to MaxPieces pieces.    *)
(***************************************************************************)
MaxPieces == 3

ExtractedDir == "/p/extracted"

FileNames == {"index.html", "Index.html", "about.html", "page7.html", "INDEX.HTML"}

FilePaths ==
    {ExtractedDir \o "/" \o n : n \in FileNames}
    \cup {ExtractedDir \o "/sub/" \o n : n \in {"index.html", "team.html"}}

UrlPrefixes == {"", "https://t.co", " http://t.co"}

UrlPieces == {"/", "about", "index", ".html", "?x=1"}

RECURSIVE Joined(_)
Joined(n) ==
    IF n = 0 THEN {""}
    ELSE Joined(n - 1) \cup {s \o x : s \in Joined(n - 1), x \in UrlPieces}

OgContents == {p \o t : p \in UrlPrefixes, t \in Joined(MaxPieces)}

SlugIdle == filepath = NULL /\ og_content = NULL /\ slug = NULL

ContentIdle == soup = <<>> /\ gone = {} /\ result = <<>>

\* what the caller of parse_menu holds before the call returned
NotParsed == [returned |-> FALSE, items |-> <<>>]

MenuIdle == menu = NotParsed

MergeIdle == two_files = NULL /\ combined = NULL

StartIdle == active_migrations = <<>> /\ requests = <<>>

MigrationIdle == parsed_data = NULL /\ manager = NULL /\ wp = NULL /\ history = <<>>

TrackerIdle == tracker = NULL /\ lock = 0 /\ threads = <<>>

ExportIdle ==
    /\ fs = NULL /\ include_images = NULL /\ run = 0 /\ html_files = <<>>
    /\ page_index = 0 /\ structured_data = NULL /\ outcome = <<>>

InitSlug ==
    /\ pc = "slug_call"
    /\ filepath \in FilePaths
    /\ og_content \in OgContents
    /\ slug = NULL
    /\ ContentIdle
    /\ MenuIdle
    /\ ExportIdle
    /\ MergeIdle
    /\ StartIdle
    /\ MigrationIdle
    /\ TrackerIdle

\* one call of get_page_slug(filepath, soup)
GetPageSlug ==
    /\ pc = "slug_call"
    /\ slug' = get_page_slug(filepath, og_content)
    /\ pc' = "slug_done"
    /\ UNCHANGED <<filepath, og_content, contentVars, menuVars, exportVars, mergeVars,
                   startVars, migrationVars, trackerVars>>

NextSlug == GetPageSlug

SpecSlug == InitSlug /\ [][NextSlug]_vars

\* os.path.dirname
Dirname(path) == Mid(path, 1, RFind(path, "/") - 1)

\* the document find_html_files puts first: index.html directly in the root
IsRootIndex(fp) == Dirname(fp) = ExtractedDir /\ Lower(Basename(fp)) = "index.html"

\* C5: the root/index document always resolves to slug "/", with or without
\* an og:url meta tag and whatever that tag's path is.
C5_IndexSlugIsRoot ==
    (pc = "slug_done" /\ IsRootIndex(filepath)) => slug = "/"

\* C6: every page slug is normalized: it starts with "/", has no trailing
\* "/" unless it is the root, and the root is exactly "/".
C6_SlugNormalized ==
    pc = "slug_done" =>
        /\ StartsWith(slug, "/")
        /\ (slug = "/" \/ ~EndsWith(slug, "/"))

(***************************************************************************)
(* Inputs of parse_page_content: documents of up to MaxNodes elements      *)
(* below <body><div id="allrecords">, every shape, the elements drawn from *)
(* ContentKinds; and documents holding a list of up to MaxItems items with *)
(* an optional paragraph before and after it.                              *)
(***************************************************************************)
MaxNodes == 3
MaxItems == 3

Base == <<El(0, "body", {}), [El(1, "div", {}) EXCEPT !.id = "allrecords"]>>

KDiv == El(0, "div", {})
KP == El(0, "p", {})
KH2 == El(0, "h2", {"t-title"})
KSpan == El(0, "span", {"t-title"})
KAtom == El(0, "div", {"tn-atom"})
KBtn == [El(0, "a", {"t-btn"}) EXCEPT !.href = "/go"]
KImg == [El(0, "img", {}) EXCEPT !.src = "a.png", !.alt = "pic"]
KAtomLink == [El(0, "a", {"tn-atom", "t-btn"}) EXCEPT !.href = "/buy"]
KUl == El(0, "ul", {})
KLi == El(0, "li", {})

ContentKinds == {KDiv, KP, KH2, KSpan, KAtom, KBtn, KAtomLink, KImg, KUl, KLi}

ContentTexts == {"Alfa", "some text"}

ListTexts == {"Alfa", "some text", "Item C"}

\* the own text an element of kind k may carry ("" is none)
TextsOf(k, texts) ==
    IF k.name \in {"ul", "img"} \/ k = KDiv THEN {""}
    ELSE IF k = KLi THEN texts \cup {""}
    ELSE IF k = KAtom THEN {"", "Alfa"}
    ELSE IF k = KP THEN texts
    ELSE IF k = KAtomLink THEN {"Buy"}
    ELSE {"Alfa"}

\* doc with one more element of kind k under p, its text (if any) as its
\* first child
Add(doc, p, k, t) ==
    IF t = "" THEN Append(doc, [k EXCEPT !.parent = p])
    ELSE doc \o <<[k EXCEPT !.parent = p], Txt(Len(doc) + 1, t)>>

LastTag(doc) == CHOOSE k \in 1..Len(doc) : IsTag(doc, k) /\ \A j \in (k + 1)..Len(doc) : ~IsTag(doc, j)

HasOwnText(doc, p) == \E k \in 1..Len(doc) : ~IsTag(doc, k) /\ doc[k].parent = p

\* where the next element in document order may hang: the last element or
\* one of its ancestors, inside the container
AttachPoints(doc) ==
    {p \in {LastTag(doc)} \cup Ancestors(doc, LastTag(doc)) : p >= 2}

CanContain(doc, p, k) ==
    /\ doc[p].name \notin {"img", "p", "h2", "span", "a"}
    /\ ~HasOwnText(doc, p)
    /\ (doc[p].name = "ul") = (k.name = "li")

Extend(doc, kinds, texts) ==
    UNION {{Add(doc, x[1], x[2], t) : t \in TextsOf(x[2], texts)} :
              x \in {y \in AttachPoints(doc) \X kinds : CanContain(doc, y[1], y[2])}}

TagCount(doc) == Cardinality({k \in 1..Len(doc) : IsTag(doc, k)})

\* the documents with at most n elements below the container
RECURSIVE TreeDocs(_, _, _)
TreeDocs(n, kinds, texts) ==
    IF n = 0 THEN {Base}
    ELSE TreeDocs(n - 1, kinds, texts)
         \cup UNION {Extend(doc, kinds, texts) :
                        doc \in {x \in TreeDocs(n - 1, kinds, texts) : TagCount(x) = n + 1}}

RECURSIVE SeqsUpTo(_, _)
SeqsUpTo(n, S) ==
    IF n = 0 THEN {<<>>}
    ELSE SeqsUpTo(n - 1, S) \cup {Append(q, x) : q \in SeqsUpTo(n - 1, S), x \in S}

RECURSIVE AddItems(_, _, _)
AddItems(doc, ul, items) ==
    IF items = <<>> THEN doc
    ELSE AddItems(Add(doc, ul, KLi, Head(items)), ul, Tail(items))

AddList(doc, items) == AddItems(Add(doc, 2, KUl, ""), Len(doc) + 1, items)

AddPara(doc, t) == IF t = "" THEN doc ELSE Add(doc, 2, KP, t)

ListDocs(n, texts) ==
    {AddPara(AddList(AddPara(Base, b), items), a) :
        b \in {"", "Alfa"}, items \in SeqsUpTo(n, texts), a \in {"", "some text"}}

\* the document with the id of its container taken away
WithoutContainer(doc) == [doc EXCEPT ![2].id = ""]

BareDocs(n, texts) == {WithoutContainer(doc) : doc \in ListDocs(n, texts)}

\* a text of n lower-case letters
Twice(s) == s \o s

RECURSIVE LongText(_)
LongText(n) ==
    IF n = 0 THEN ""
    ELSE IF n % 2 = 0 THEN Twice(LongText(n \div 2))
    ELSE "a" \o LongText(n - 1)

AtomStyles == {"", "font-weight:700", "color:red;font-weight:600"}

AtomTexts ==
    {"some text", "SOME TEXT", "Some Text", LongText(MaxHeadingLen - 1),
     LongText(MaxHeadingLen)}

\* one text atom in the container, its text its own or inside an h3
AtomDoc(style, t, sub) ==
    IF sub
    THEN Add(Add(Base, 2, [KAtom EXCEPT !.style = style], ""), 3, El(0, "h3", {}), t)
    ELSE Add(Base, 2, [KAtom EXCEPT !.style = style], t)

AtomDocs == {AtomDoc(style, t, sub) : style \in AtomStyles, t \in AtomTexts, sub \in BOOLEAN}

\* the elements a paragraph is put in: header, footer, navigation by tag or
\* by class marker, and a plain section
Wrappers ==
    { [El(0, "header", {}) EXCEPT !.id = "t-header"], El(0, "header", {}),
      [El(0, "footer", {}) EXCEPT !.id = "t-footer"], El(0, "footer", {}),
      El(0, "nav", {}), El(0, "nav", {"t228__centercontainer"}),
      El(0, "div", {"t228"}), El(0, "div", {"t794__list"}), El(0, "div", {"t-menu"}),
      El(0, "section", {"t228"}), El(0, "section", {"t-menu"}), El(0, "section", {}) }

WrappedDocs == {Add(Add(Base, 2, w, ""), 3, KP, "some text") : w \in Wrappers}

\* one link or button in the container: styled as a button or as a tool atom
ButtonKinds ==
    { El(0, "a", {"t-btn"}), El(0, "button", {"t-btn"}), El(0, "a", {"tn-atom"}),
      El(0, "button", {"tn-atom"}), El(0, "a", {}) }

ButtonTexts ==
    {"Go", "Buy", "Menu", "Read more", LongText(MaxButtonLen - 1), LongText(MaxButtonLen)}

ButtonDocs ==
    {Add(Base, 2, [k EXCEPT !.href = "/go"], t) : k \in ButtonKinds, t \in ButtonTexts}

\* what the caller holds for a flag before and after the call returned
NotCalled == [returned |-> FALSE, candidates |-> <<>>, content |-> <<>>]

CallResult(cs) == [returned |-> TRUE, candidates |-> cs, content |-> FinalContent(cs)]

InitContent ==
    /\ pc = "content"
    /\ soup \in TreeDocs(MaxNodes, ContentKinds, ContentTexts)
                \cup ListDocs(MaxItems, ListTexts)
                \cup BareDocs(MaxItems, ListTexts)
                \cup AtomDocs
                \cup WrappedDocs
                \cup ButtonDocs
    /\ gone = {}
    /\ result = [inc \in BOOLEAN |-> NotCalled]
    /\ SlugIdle
    /\ MenuIdle
    /\ ExportIdle
    /\ MergeIdle
    /\ StartIdle
    /\ MigrationIdle
    /\ TrackerIdle

\* one call parse_page_content(soup, include_images) on the freshly parsed
\* document
ParsePageContent(inc) ==
    /\ pc = "content"
    /\ ~result[inc].returned
    /\ result' = [result EXCEPT ![inc] = CallResult(SortedCandidates(soup, {}, inc))]
    /\ gone' = GoneAfter(soup, {})
    /\ UNCHANGED <<pc, soup, slugVars, menuVars, exportVars, mergeVars,
                   startVars, migrationVars, trackerVars>>

NextContent == \E inc \in BOOLEAN : ParsePageContent(inc)

SpecContent == InitContent /\ [][NextContent]_vars

(***************************************************************************)
(* Inputs of parse_menu: a navigation block of one of the Tilda shapes     *)
(* holding up to MaxLinks links, and at most one sub-panel holding up to   *)
(* MaxChildren links.  A link is a pair <<text, href>>.                    *)
(***************************************************************************)
MaxLinks == 2
MaxChildren == 2

NavShape(tg, cl, ulc, lic, ac) == [tag |-> tg, cls |-> cl, ul |-> ulc, li |-> lic, a |-> ac]

T228Shape ==
    NavShape("nav", {"t228__centercontainer"}, {"t228__list"}, {"t228__list_item"},
             {"t-menu__link-item"})

NavShapes ==
    { T228Shape,
      NavShape("nav", {"t228", "t228__centercontainer"}, {"t228__list"},
               {"t228__list_item"}, {"t-menu__link-item"}),
      NavShape("nav", {"t456", "t456__rightwrapper"}, {"t456__list"},
               {"t456__list_item"}, {"t-menu__link-item"}),
      NavShape("div", {"t-menu"}, {}, {}, {}),
      NavShape("div", {"topmenu"}, {}, {}, {"menu-link"}),
      NavShape("ul", {"t-menu__list"}, {}, {}, {"t-menu__link-item"}),
      NavShape("div", {"header"}, {}, {}, {}) }

LinkPairs ==
    { <<"About Us", "/about">>, <<"Menu", "/m">>, <<"", "/x">>,
      <<"Sales", "#submenu:Sales">>, <<"Sales", "#submenu: Sales">>,
      <<"Home", "index.html">>, <<"Shop", "https://x.co">>, <<"Contact", "">>,
      <<"Team", "team.html.bak.html">> }

\* the links next to which a panel is tried
PanelLinkPairs ==
    { <<"", "/x">>, <<"Sales", "#submenu:Sales">>, <<"Sales", "#submenu: Sales">> }

ChildPairs ==
    { <<"Repair", "/services/repair">>, <<"", "/sales/x">>, <<"Install", "install.html">>,
      <<"More", "#submenu:More">>, <<"Plain", "">>, <<"Ext", "https://x.co/a">> }

PanelHooks == {"#submenu:Sales", "#submenu: Sales"}

Anchor(cls, href) == [El(0, "a", cls) EXCEPT !.href = href]

\* <li class=lic><a class=ac href=...>text</a></li> appended below list
AddLink(doc, list, lic, ac, pair) ==
    Add(Add(doc, list, El(0, "li", lic), ""), Len(doc) + 1, Anchor(ac, pair[2]), pair[1])

RECURSIVE AddLinks(_, _, _, _, _)
AddLinks(doc, list, lic, ac, pairs) ==
    IF pairs = <<>> THEN doc
    ELSE AddLinks(AddLink(doc, list, lic, ac, Head(pairs)), list, lic, ac, Tail(pairs))

\* the navigation container below body, with a list inside unless the
\* container is the list
AddNav(doc, shape) ==
    IF shape.tag = "ul" THEN Add(doc, 1, El(0, "ul", shape.cls), "")
    ELSE Add(Add(doc, 1, El(0, shape.tag, shape.cls), ""), Len(doc) + 1,
             El(0, "ul", shape.ul), "")

NavDoc(shape, pairs) ==
    AddLinks(AddNav(<<El(0, "body", {})>>, shape), Len(AddNav(<<El(0, "body", {})>>, shape)),
             shape.li, shape.a, pairs)

\* <div class="t794" data-tooltip-hook=hook> with its links
AddPanel(doc, hook, pairs) ==
    AddLinks(Add(doc, 1, [El(0, "div", {"t794"}) EXCEPT !.hook = hook], ""), Len(doc) + 1,
             {"t794__list_item"}, {"t794__typo"}, pairs)

MenuDocs(n, m) ==
    {NavDoc(shape, pairs) : shape \in NavShapes, pairs \in SeqsUpTo(n, LinkPairs)}
    \cup {AddPanel(NavDoc(T228Shape, pairs), hook, kids) :
            pairs \in SeqsUpTo(n, PanelLinkPairs), hook \in PanelHooks,
            kids \in SeqsUpTo(m, ChildPairs)}

InitMenu ==
    /\ pc = "menu"
    /\ soup \in MenuDocs(MaxLinks, MaxChildren)
    /\ gone = {}
    /\ result = <<>>
    /\ menu = NotParsed
    /\ SlugIdle
    /\ ExportIdle
    /\ MergeIdle
    /\ StartIdle
    /\ MigrationIdle
    /\ TrackerIdle

\* one call parse_menu(soup)
ParseMenu ==
    /\ pc = "menu"
    /\ ~menu.returned
    /\ menu' = [returned |-> TRUE, items |-> parse_menu(soup)]
    /\ UNCHANGED <<pc, slugVars, contentVars, exportVars, mergeVars,
                   startVars, migrationVars, trackerVars>>

NextMenu == ParseMenu

SpecMenu == InitMenu /\ [][NextMenu]_vars

(***************************************************************************)
(* The extracted tree: the root directory with its listing, and its        *)
(* sub-directories in listing order.  Listings are in the order os.walk    *)
(* yields them.                                                            *)
(***************************************************************************)
Tree(isdir, files, dirs) == [isdir |-> isdir, files |-> files, dirs |-> dirs]

Join(root, name) == root \o "/" \o name

InSeq(x, q) == \E i \in 1..Len(q) : q[i] = x

\* the listings of the sub-directories
DirListing(name) ==
    IF name = "files" THEN <<"aboutbody.html">>
    ELSE IF name = "pages" THEN <<"team.html">>
    ELSE IF name = "sub" THEN <<"index.html", "notes.txt">>
    ELSE <<>>

\* lines 13-15: the directories below root that os.walk visits, 'files' left
\* out
RECURSIVE WalkDirs(_, _)
WalkDirs(root, dirs) ==
    IF dirs = <<>> THEN <<>>
    ELSE (IF Head(dirs) = "files" THEN <<>>
          ELSE <<[root |-> Join(root, Head(dirs)), files |-> DirListing(Head(dirs))]>>)
         \o WalkDirs(root, Tail(dirs))

OsWalk(tree) ==
    IF tree.isdir
    THEN <<[root |-> ExtractedDir, files |-> tree.files]>> \o WalkDirs(ExtractedDir, tree.dirs)
    ELSE <<>>

\* lines 17-24 for the files of one directory
RECURSIVE CollectFiles(_, _, _, _)
CollectFiles(found, root, files, start_path) ==
    IF files = <<>> THEN found
    ELSE CollectFiles(
            IF EndsWith(Lower(Head(files)), ".html")
            THEN (IF Lower(Head(files)) = "index.html" /\ root = start_path
                  THEN <<Join(root, Head(files))>> \o found
                  ELSE Append(found, Join(root, Head(files))))
            ELSE found,
            root, Tail(files), start_path)

RECURSIVE CollectWalk(_, _, _)
CollectWalk(found, walk, start_path) ==
    IF walk = <<>> THEN found
    ELSE CollectWalk(CollectFiles(found, Head(walk).root, Head(walk).files, start_path),
                     Tail(walk), start_path)

find_html_files(tree) == CollectWalk(<<>>, OsWalk(tree), ExtractedDir)

(***************************************************************************)
(* The files.  A file is utf-8 text or not; its parse has a title (NULL:   *)
(* no title tag, "": a title tag without a string, so .string is None), an  *)
(* og:url content and a tree.                                              *)
(***************************************************************************)
Page(ok, ttl, og, dom) == [decodable |-> ok, title |-> ttl, og |-> og, dom |-> dom]

HomeNav ==
    AddLink(Add(Add(Add(Base, 2, El(0, "div", {"t228"}), ""),
                    3, El(0, "nav", {"t228__centercontainer"}), ""),
                4, El(0, "ul", {"t228__list"}), ""),
            5, {"t228__list_item"}, {"t-menu__link-item"}, <<"About Us", "/about">>)

HomeDom == Add(Add(HomeNav, 2, KH2, "Alfa"), 2, KP, "some text")

AboutShell == Add(Add(Base, 2, KP, "stale text"), 1, El(0, "div", {"t-rec"}), "")

AboutBody == Add(Add(Append(Base, Txt(2, "loose")), 2, KH2, "Alfa"), 2, KP, "some text")

\* a page that repeats its texts, and shares them with the home page
TeamDom ==
    Add(Add(Add(Add(Add(Base, 2, KH2, "Alfa"), 2, KP, "Alfa"), 2, KBtn, "Alfa"),
            2, KP, "some text"), 2, KP, "some text")

FileContent(path) ==
    CASE path = Join(ExtractedDir, "index.html") -> Page(TRUE, "Home", "", HomeDom)
      [] path = Join(ExtractedDir, "INDEX.HTML") ->
            Page(TRUE, "  ", "https://t.co/index.html", Add(Base, 2, KH2, "Alfa"))
      [] path = Join(ExtractedDir, "about.html") ->
            Page(TRUE, " About ", "https://t.co/about.html", AboutShell)
      [] path = Join(ExtractedDir, "files/aboutbody.html") -> Page(TRUE, NULL, "", AboutBody)
      [] path = Join(ExtractedDir, "blank.html") -> Page(TRUE, "", "", Add(Base, 2, KP, "some text"))
      [] path = Join(ExtractedDir, "empty.html") -> Page(TRUE, NULL, "", Base)
      [] path = Join(ExtractedDir, "pages/team.html") -> Page(TRUE, NULL, "", TeamDom)
      [] path = Join(ExtractedDir, "sub/index.html") ->
            Page(TRUE, "Sub", "https://t.co/sub/index.html", Add(Base, 2, KP, "some text"))
      [] OTHER -> Page(FALSE, NULL, "", <<>>)

\* os.path.exists of <directory>/<sub>/<name>
Exists(tree, directory, sub, name) ==
    /\ tree.isdir
    /\ directory = ExtractedDir
    /\ InSeq(sub, tree.dirs)
    /\ InSeq(name, DirListing(sub))

(***************************************************************************)
(* get_combined_soup                                                       *)
(***************************************************************************)
\* soup.find('div', id='allrecords')
AllRecords(d) == First({k \in 1..Len(d) : d[k].name = "div" /\ d[k].id = "allrecords"})

\* body_content.find_all(recursive=False) with what hangs below: the element
\* children of the container and their subtrees
Moved(body, br) ==
    InOrder({k \in Descendants(body, br) :
                \E c \in Ancestors(body, k) \cup {k} : body[c].parent = br /\ IsTag(body, c)})

Rank(q, x) == CHOOSE i \in 1..Len(q) : q[i] = x

\* lines 51-53: the n nodes below the container ar of main replaced by the
\* moved nodes of body
MergeAt(main, body, ar, br, n, moved) ==
    [k \in 1..(Len(main) - n + Len(moved)) |->
        IF k <= ar THEN main[k]
        ELSE IF k <= ar + Len(moved)
        THEN [body[moved[k - ar]] EXCEPT
                 !.parent = IF @ = br THEN ar ELSE ar + Rank(moved, @)]
        ELSE [main[k - Len(moved) + n] EXCEPT
                 !.parent = IF @ <= ar THEN @ ELSE @ - n + Len(moved)]]

\* the shell left as it was
Unmerged(main, body) == main

\* lines 46-53
Merge(main, body) ==
    IF AllRecords(main) = 0 \/ AllRecords(body) = 0 THEN main
    ELSE MergeAt(main, body, AllRecords(main), AllRecords(body),
                 Cardinality(Descendants(main, AllRecords(main))),
                 Moved(body, AllRecords(body)))

\* 'page123.html' -> 'page123body.html'
BodyName(file_name) == Replace(file_name, ".html", "body.html")

body_file_path(path) == Join(Join(Dirname(path), "files"), BodyName(Basename(path)))

\* open(...).read() raised (UnicodeDecodeError)
ReadRaised == [raised |-> TRUE, title |-> NULL, og |-> "", dom |-> <<>>]

\* the tree d without the nodes of g (g holds whole sub-trees)
Compact(d, g) ==
    [i \in 1..(Len(d) - Cardinality(g \cap (1..Len(d)))) |->
        [d[InOrder((1..Len(d)) \ g)[i]] EXCEPT
            !.parent = IF @ = 0 THEN 0 ELSE Rank(InOrder((1..Len(d)) \ g), @)]]

\* the soup handed out is the tree an earlier content extraction has pruned
SoupAfterContent(page, dom) ==
    [raised |-> FALSE, title |-> page.title, og |-> page.og,
     dom |-> Compact(dom, GoneAfter(dom, {}))]

Soup(page, dom) == [raised |-> FALSE, title |-> page.title, og |-> page.og, dom |-> dom]

\* lines 33-55 on the parsed files
Combine(main_file, body_exists, body_file) ==
    IF ~main_file.decodable THEN ReadRaised
    ELSE IF ~body_exists THEN Soup(main_file, main_file.dom)
    ELSE IF ~body_file.decodable THEN ReadRaised
    ELSE Soup(main_file, Merge(main_file.dom, body_file.dom))

get_combined_soup(tree, path) ==
    Combine(FileContent(path),
            Exists(tree, Dirname(path), "files", BodyName(Basename(path))),
            FileContent(body_file_path(path)))

(***************************************************************************)
(* parse_tilda_export, called MaxRuns times on the same tree               *)
(***************************************************************************)
MaxRootFiles == 2
MaxRuns == 2

RootFiles ==
    {"index.html", "INDEX.HTML", "about.html", "bad.html", "blank.html", "empty.html",
     "readme.txt"}

DirOrders ==
    {<<>>, <<"files">>, <<"pages">>, <<"files", "pages">>, <<"pages", "files">>,
     <<"sub">>, <<"sub", "files">>, <<"pages", "sub">>}

Distinct(q) == \A i, j \in 1..Len(q) : q[i] = q[j] => i = j

\* root listings with index.html in two letter cases around another document
TwoIndexListings ==
    { <<"about.html", "index.html", "INDEX.HTML">>,
      <<"INDEX.HTML", "about.html", "index.html">> }

Trees(n) ==
    {Tree(FALSE, <<>>, <<>>)}
    \cup {Tree(TRUE, files, dirs) :
            files \in {q \in SeqsUpTo(n, RootFiles) : Distinct(q)}, dirs \in DirOrders}
    \cup {Tree(TRUE, files, <<"sub">>) : files \in TwoIndexListings}

RootNotFound == "Extracted directory not found."
NoHtmlFiles == "No HTML files found in the export."

NoOutcome == [kind |-> "none", error |-> "", menu |-> <<>>, pages |-> <<>>]

\* return {"error": msg}
ErrorValue(msg) == [kind |-> "error", error |-> msg, menu |-> <<>>, pages |-> <<>>]

\* return structured_data
DataValue(sd) == [kind |-> "data", error |-> "", menu |-> sd.menu, pages |-> sd.pages]

\* the call ended with an exception
RaisedOutcome == [kind |-> "raised", error |-> "", menu |-> <<>>, pages |-> <<>>]

\* the dict of an earlier call kept in place of a new one
KeptStructuredData ==
    IF run = 1 THEN [pages |-> <<>>, menu |-> <<>>] ELSE structured_data

\* line 549
NewStructuredData == [pages |-> <<>>, menu |-> <<>>]

\* lines 541-543 alone
RootCheckOnly(tree) ==
    IF ~tree.isdir THEN ErrorValue(RootNotFound) ELSE NoOutcome

\* lines 541-547: the early returns
EarlyReturn(tree) ==
    IF ~tree.isdir THEN ErrorValue(RootNotFound)
    ELSE IF find_html_files(tree) = <<>> THEN ErrorValue(NoHtmlFiles)
    ELSE NoOutcome

\* line 571: soup.title.string.strip() if soup.title else "Untitled"
TitleRaises(sp) == sp.title = ""

PageTitle(sp) == IF sp.title = NULL THEN "Untitled" ELSE Strip(sp.title)

\* the texts of the text-bearing blocks of the pages
EmittedTexts(pages) ==
    UNION {{pages[p].content[i].text :
               i \in {j \in 1..Len(pages[p].content) :
                         pages[p].content[j].type \in {"heading", "paragraph", "button"}}} :
           p \in 1..Len(pages)}

\* parse_page_content with processed_texts starting from the set seen
ContentWithSeen(d, g, mc, inc, seen) ==
    FinalContent(SortCandidates(
        Walk(d, g, mc, inc, [cands |-> <<>>, texts |-> seen], AllElements(d, g, mc)).cands))

\* the page built with the texts of the earlier pages counted as seen
PageOfSharedTexts(path, sp, inc) ==
    [title |-> PageTitle(sp), slug |-> get_page_slug(path, sp.og),
     content |-> IF MainContent(sp.dom, {}) = 0 THEN <<>>
                 ELSE ContentWithSeen(sp.dom, GoneAfter(sp.dom, {}), MainContent(sp.dom, {}),
                                      inc, EmittedTexts(structured_data.pages))]

\* lines 571-573 and 581-585
PageOf(path, sp, inc) ==
    [title |-> PageTitle(sp), slug |-> get_page_slug(path, sp.og),
     content |-> parse_page_content(sp.dom, {}, inc)]

\* the page appended whatever its content
AppendPageAlways(sd, page) == [sd EXCEPT !.pages = Append(@, page)]

AppendPage(sd, page) ==
    IF page.content # <<>> THEN [sd EXCEPT !.pages = Append(@, page)] ELSE sd

InitExport ==
    /\ pc = "export_call"
    /\ fs \in Trees(MaxRootFiles)
    /\ include_images \in BOOLEAN
    /\ run = 1
    /\ html_files = <<>>
    /\ page_index = 0
    /\ structured_data = NewStructuredData
    /\ outcome = [r \in 1..MaxRuns |-> NoOutcome]
    /\ SlugIdle
    /\ ContentIdle
    /\ MenuIdle
    /\ MergeIdle
    /\ StartIdle
    /\ MigrationIdle
    /\ TrackerIdle

Finish(value) ==
    /\ outcome' = [outcome EXCEPT ![run] = value]
    /\ pc' = "export_done"

\* lines 541-549: the root test, discovery, the new export
ExportStart ==
    /\ pc = "export_call"
    /\ IF EarlyReturn(fs).kind = "error"
       THEN /\ Finish(EarlyReturn(fs))
            /\ UNCHANGED <<html_files, structured_data>>
       ELSE /\ html_files' = find_html_files(fs)
            /\ structured_data' = NewStructuredData
            /\ pc' = "export_menu"
            /\ UNCHANGED outcome
    /\ UNCHANGED <<fs, include_images, run, page_index, slugVars, contentVars, menuVars, mergeVars,
                   startVars, migrationVars, trackerVars>>

\* lines 555-562: the menu of the first document
ExportMenu ==
    /\ pc = "export_menu"
    /\ IF html_files = <<>>
       THEN /\ pc' = "export_pages"
            /\ page_index' = 1
            /\ UNCHANGED <<structured_data, outcome>>
       ELSE IF get_combined_soup(fs, html_files[1]).raised
       THEN /\ Finish(RaisedOutcome)
            /\ UNCHANGED <<structured_data, page_index>>
       ELSE /\ structured_data' =
                  [structured_data EXCEPT
                      !.menu = parse_menu(get_combined_soup(fs, html_files[1]).dom)]
            /\ pc' = "export_pages"
            /\ page_index' = 1
            /\ UNCHANGED outcome
    /\ UNCHANGED <<fs, include_images, run, html_files, slugVars, contentVars, menuVars, mergeVars,
                   startVars, migrationVars, trackerVars>>

\* lines 565-586: one turn of the page loop
ExportPage ==
    /\ pc = "export_pages"
    /\ page_index <= Len(html_files)
    /\ IF \/ get_combined_soup(fs, html_files[page_index]).raised
          \/ TitleRaises(get_combined_soup(fs, html_files[page_index]))
       THEN /\ Finish(RaisedOutcome)
            /\ UNCHANGED <<structured_data, page_index>>
       ELSE /\ structured_data' =
                  AppendPage(structured_data,
                             PageOf(html_files[page_index],
                                    get_combined_soup(fs, html_files[page_index]),
                                    include_images))
            /\ page_index' = page_index + 1
            /\ UNCHANGED <<pc, outcome>>
    /\ UNCHANGED <<fs, include_images, run, html_files, slugVars, contentVars, menuVars, mergeVars,
                   startVars, migrationVars, trackerVars>>

\* line 598
ExportReturn ==
    /\ pc = "export_pages"
    /\ page_index > Len(html_files)
    /\ Finish(DataValue(structured_data))
    /\ UNCHANGED <<fs, include_images, run, html_files, page_index, structured_data,
                   slugVars, contentVars, menuVars, mergeVars,
                   startVars, migrationVars, trackerVars>>

\* the caller runs the parser again on the unchanged tree
ExportAgain ==
    /\ pc = "export_done"
    /\ run < MaxRuns
    /\ run' = run + 1
    /\ pc' = "export_call"
    /\ UNCHANGED <<fs, include_images, html_files, page_index, structured_data, outcome,
                   slugVars, contentVars, menuVars, mergeVars,
                   startVars, migrationVars, trackerVars>>

NextExport == ExportStart \/ ExportMenu \/ ExportPage \/ ExportReturn \/ ExportAgain

SpecExport == InitExport /\ [][NextExport]_vars

(***************************************************************************)
(* Inputs of get_combined_soup: a shell with up to MaxStale stale children *)
(* in its container and a fragment with up to MaxFragKids children.        *)
(***************************************************************************)
MaxStale == 2
MaxFragKids == 2

\* div#allrecords, or a div without the id
Container(has) ==
    IF has THEN [El(0, "div", {"t-records"}) EXCEPT !.id = "allrecords"]
    ELSE El(0, "div", {"t-records"})

RECURSIVE AddStale(_, _, _)
AddStale(doc, c, n) ==
    IF n = 0 THEN doc ELSE AddStale(Add(doc, c, El(0, "p", {"stale"}), "stale text"), c, n - 1)

WithHeader(doc, pre) == IF pre THEN Add(doc, 1, El(0, "header", {}), "") ELSE doc

WithFooter(doc, post) == IF post THEN Add(doc, 1, El(0, "footer", {}), "Alfa") ELSE doc

ShellDom(pre, has, n, post) ==
    WithFooter(AddStale(Append(WithHeader(<<El(0, "body", {})>>, pre),
                               [Container(has) EXCEPT !.parent = 1]),
                        Len(WithHeader(<<El(0, "body", {})>>, pre)) + 1, n),
               post)

FragKinds == {"h2", "p", "nest", "text"}

AddKid(doc, c, kind) ==
    CASE kind = "h2" -> Add(doc, c, KH2, "Alfa")
      [] kind = "p" -> Add(doc, c, KP, "some text")
      [] kind = "nest" -> Add(Add(doc, c, KDiv, ""), Len(doc) + 1, KP, "Item C")
      [] OTHER -> Append(doc, Txt(c, "loose"))

RECURSIVE AddKids(_, _, _)
AddKids(doc, c, kinds) ==
    IF kinds = <<>> THEN doc ELSE AddKids(AddKid(doc, c, Head(kinds)), c, Tail(kinds))

FragDom(has, kinds) ==
    AddKids(<<El(0, "body", {}), [Container(has) EXCEPT !.parent = 1]>>, 2, kinds)

Shells(n) ==
    {Page(FALSE, NULL, "", <<>>)}
    \cup {Page(TRUE, "Home", "", ShellDom(pre, has, k, post)) :
            pre \in BOOLEAN, has \in BOOLEAN, k \in 0..n, post \in BOOLEAN}

Fragments(m) ==
    {Page(FALSE, NULL, "", <<>>)}
    \cup {Page(TRUE, NULL, "", FragDom(has, kinds)) :
            has \in BOOLEAN, kinds \in SeqsUpTo(m, FragKinds)}

InitMerge ==
    /\ pc = "combine"
    /\ two_files \in [main : Shells(MaxStale), body_exists : BOOLEAN,
                      body : Fragments(MaxFragKids)]
    /\ combined = NULL
    /\ SlugIdle
    /\ ContentIdle
    /\ MenuIdle
    /\ ExportIdle
    /\ StartIdle
    /\ MigrationIdle
    /\ TrackerIdle

\* one call get_combined_soup(main_file_path)
GetCombinedSoup ==
    /\ pc = "combine"
    /\ combined' = Combine(two_files.main, two_files.body_exists, two_files.body)
    /\ pc' = "combined"
    /\ UNCHANGED <<two_files, slugVars, contentVars, menuVars, exportVars,
                   startVars, migrationVars, trackerVars>>

NextMerge == GetCombinedSoup

SpecMerge == InitMerge /\ [][NextMerge]_vars

(***************************************************************************)
(* app.py: the start-migration route.  A request is handled by the route   *)
(* function, which answers and starts a thread; the thread registers the   *)
(* manager, runs the migration and removes the entry.                      *)
(***************************************************************************)
MaxRequests == 3

Projects == {"p1", "p2"}

Request(project, at) == [project |-> project, at |-> at]

\* project_name in active_migrations
InProgress(project) == active_migrations[project] # 0

\* lines 920-921 alone: the answer given while the project has an entry
Rejects(project) == InProgress(project)

\* the migrations whose thread was started and has not ended
Running == {r \in DOMAIN requests : requests[r].at \in {"started", "migrating", "ending"}}

\* active_migrations.pop(project_name, None)
Pop(project) == [active_migrations EXCEPT ![project] = 0]

InitStart ==
    /\ pc = "serving"
    /\ active_migrations = [p \in Projects |-> 0]
    /\ requests \in [1..MaxRequests -> {Request(p, "new") : p \in Projects}]
    /\ SlugIdle
    /\ ContentIdle
    /\ MenuIdle
    /\ ExportIdle
    /\ MergeIdle
    /\ MigrationIdle
    /\ TrackerIdle

StartFrame ==
    UNCHANGED <<pc, slugVars, contentVars, menuVars, exportVars, mergeVars,
                migrationVars, trackerVars>>

\* lines 904-954: start_wordpress_migration answers 'Migration already in
\* progress' or creates the manager, starts the thread and answers
\* 'Migration started'
StartWordpressMigration(r) ==
    /\ requests[r].at = "new"
    /\ requests' = [requests EXCEPT ![r].at =
                       IF Rejects(requests[r].project) THEN "rejected" ELSE "started"]
    /\ UNCHANGED active_migrations
    /\ StartFrame

\* line 930: the thread registers its manager
RunMigrationRegister(r) ==
    /\ requests[r].at = "started"
    /\ active_migrations' = [active_migrations EXCEPT ![requests[r].project] = r]
    /\ requests' = [requests EXCEPT ![r].at = "migrating"]
    /\ StartFrame

\* lines 935-943: start_migration returns; a result without success pops the
\* entry before the finally clause does
RunMigrationResult(r, success) ==
    /\ requests[r].at = "migrating"
    /\ active_migrations' = IF success THEN active_migrations ELSE Pop(requests[r].project)
    /\ requests' = [requests EXCEPT ![r].at = "ending"]
    /\ StartFrame

\* lines 944-945: finally
RunMigrationFinally(r) ==
    /\ requests[r].at = "ending"
    /\ active_migrations' = Pop(requests[r].project)
    /\ requests' = [requests EXCEPT ![r].at = "ended"]
    /\ StartFrame

NextStart ==
    \E r \in 1..MaxRequests :
        \/ StartWordpressMigration(r)
        \/ RunMigrationRegister(r)
        \/ \E success \in BOOLEAN : RunMigrationResult(r, success)
        \/ RunMigrationFinally(r)

SpecStart == InitStart /\ [][NextStart]_vars

(***************************************************************************)
(* progress_tracker.py: ProgressTracker.status.  The messages, the         *)
(* timestamps and the two files written from the status are left out; an   *)
(* error or warning entry is the page it is about.                         *)
(***************************************************************************)
\* lines 21-34
NewStatus ==
    [status |-> "initializing", total_pages |-> 0, processed_pages |-> 0,
     successful_pages |-> 0, failed_pages |-> 0, percentage |-> 0,
     errors |-> <<>>, warnings |-> <<>>]

\* lines 39-47: start_migration(total_pages)
TrackerStart(st, total_pages) ==
    [st EXCEPT !.status = "running", !.total_pages = total_pages]

\* int((processed_pages / total_pages) * 100)
Percentage(st) == (st.processed_pages * 100) \div st.total_pages

WithPercentage(st) == [st EXCEPT !.percentage = Percentage(st)]

\* lines 60-62, 69-71, 90-91: the counters of one page-logging call
CountPage(st, kind) ==
    WithPercentage(
        [st EXCEPT !.processed_pages = @ + 1,
                   !.successful_pages = IF kind = "success" THEN @ + 1 ELSE @,
                   !.failed_pages = IF kind = "failure" THEN @ + 1 ELSE @])

\* lines 74-80, 94-100: the entry of one page-logging call
AddEntry(st, kind, page_url) ==
    [st EXCEPT !.errors = IF kind = "failure" THEN Append(@, page_url) ELSE @,
               !.warnings = IF kind = "skipped" THEN Append(@, page_url) ELSE @]

\* log_page_success / log_page_failure / log_page_skipped as one step
LogPage(st, kind, page_url) == AddEntry(CountPage(st, kind), kind, page_url)

\* lines 110-116: complete_migration(success)
CompleteMigration(st, success) ==
    [st EXCEPT !.status = IF success THEN "completed" ELSE "failed",
               !.percentage = IF success THEN 100 ELSE @]

(***************************************************************************)
(* The tracker under concurrent callers: the migration thread logs pages,  *)
(* request threads read the status.  Every method body runs with           *)
(* self.lock held.                                                         *)
(***************************************************************************)
MaxThreads == 2
MaxTotal == 2
MaxLogged == 3

PageKinds == {"success", "failure", "skipped"}

Caller(at, kind, seen, before, after) ==
    [at |-> at, kind |-> kind, seen |-> seen, before |-> before, after |-> after]

\* with self.lock: the lock is taken only when nobody holds it
LockIgnored == TRUE

LockFree == lock = 0

InitTracker ==
    /\ pc = "tracking"
    /\ tracker \in {TrackerStart(NewStatus, n) : n \in 1..MaxTotal}
    /\ lock = 0
    /\ threads = [t \in 1..MaxThreads |-> Caller("idle", "", tracker, 0, 0)]
    /\ SlugIdle
    /\ ContentIdle
    /\ MenuIdle
    /\ ExportIdle
    /\ MergeIdle
    /\ StartIdle
    /\ MigrationIdle

TrackerFrame ==
    UNCHANGED <<pc, slugVars, contentVars, menuVars, exportVars, mergeVars,
                startVars, migrationVars>>

\* a page-logging method is entered: with self.lock
LogPageAcquire(t, kind) ==
    /\ threads[t].at = "idle"
    /\ tracker.processed_pages < MaxLogged
    /\ LockFree
    /\ lock' = t
    /\ threads' = [threads EXCEPT ![t].at = "counting", ![t].kind = kind,
                                  ![t].before = tracker.processed_pages]
    /\ UNCHANGED tracker
    /\ TrackerFrame

\* the counters and the percentage
LogPageCount(t) ==
    /\ threads[t].at = "counting"
    /\ tracker' = CountPage(tracker, threads[t].kind)
    /\ threads' = [threads EXCEPT ![t].at = "entering"]
    /\ UNCHANGED lock
    /\ TrackerFrame

\* the error or warning entry, and the end of the with block
LogPageEntry(t) ==
    /\ threads[t].at = "entering"
    /\ tracker' = AddEntry(tracker, threads[t].kind, "/a")
    /\ threads' = [threads EXCEPT ![t].at = "idle",
                                  ![t].after = tracker.processed_pages]
    /\ lock' = IF lock = t THEN 0 ELSE lock
    /\ TrackerFrame

\* lines 127-130: get_status
GetStatus(t) ==
    /\ threads[t].at = "idle"
    /\ LockFree
    /\ threads' = [threads EXCEPT ![t].seen = tracker]
    /\ UNCHANGED <<tracker, lock>>
    /\ TrackerFrame

NextTracker ==
    \E t \in 1..MaxThreads :
        \/ \E kind \in PageKinds : LogPageAcquire(t, kind)
        \/ LogPageCount(t)
        \/ LogPageEntry(t)
        \/ GetStatus(t)

SpecTracker == InitTracker /\ [][NextTracker]_vars

(***************************************************************************)
(* migration.py: MigrationManager.start_migration.  The parsed data is a   *)
(* sequence of pages (slug and title; title NULL: the key is missing) and  *)
(* a menu that is empty or not.  The site is the set of its page slugs     *)
(* with their ids; what a request to it answers is chosen at each step.    *)
(***************************************************************************)
MaxPages == 3

\* str.strip('/')
RECURSIVE LStripSlash(_)
LStripSlash(s) == IF Len(s) > 0 /\ Ch(s, 1) = "/" THEN LStripSlash(Mid(s, 2, Len(s))) ELSE s

RECURSIVE RStripSlash(_)
RStripSlash(s) ==
    IF Len(s) > 0 /\ Ch(s, Len(s)) = "/" THEN RStripSlash(Mid(s, 1, Len(s) - 1)) ELSE s

StripSlashes(s) == LStripSlash(RStripSlash(s))

\* line 56: len(slug_parts) == 1 or slug == '/'
IsRootPage(page_slug) == Count(StripSlashes(page_slug), "/") + 1 = 1 \/ page_slug = "/"

\* line 61: '/' + '/'.join(slug_parts[:-1])
ParentPath(page_slug) ==
    "/" \o Mid(StripSlashes(page_slug), 1, RFind(StripSlashes(page_slug), "/") - 1)

\* lines 53-63: root_pages, as positions in pages from i on
RECURSIVE RootPages(_, _)
RootPages(pages, i) ==
    IF i > Len(pages) THEN <<>>
    ELSE (IF IsRootPage(pages[i].slug) THEN <<i>> ELSE <<>>) \o RootPages(pages, i + 1)

\* lines 53-63: hierarchy[parent_slug], as positions in pages from i on
RECURSIVE Hierarchy(_, _, _)
Hierarchy(pages, parent_slug, i) ==
    IF i > Len(pages) THEN <<>>
    ELSE (IF ~IsRootPage(pages[i].slug) /\ ParentPath(pages[i].slug) = parent_slug
          THEN <<i>> ELSE <<>>)
         \o Hierarchy(pages, parent_slug, i + 1)

\* one call of _migrate_single_page: the page, and the slug whose mapped id
\* is passed as parent_id (NULL: no parent_id)
Task(page, parent_slug) == [page |-> page, parent |-> parent_slug]

RECURSIVE RootTasks(_)
RootTasks(roots) ==
    IF roots = <<>> THEN <<>> ELSE <<Task(Head(roots), NULL)>> \o RootTasks(Tail(roots))

\* lines 140-148: _migrate_children, as the calls it makes in order
RECURSIVE MigrateChildren(_, _)
RECURSIVE ChildTasks(_, _, _)
ChildTasks(pages, parent_slug, children) ==
    IF children = <<>> THEN <<>>
    ELSE <<Task(Head(children), parent_slug)>>
         \o MigrateChildren(pages, pages[Head(children)].slug)
         \o ChildTasks(pages, parent_slug, Tail(children))

MigrateChildren(pages, parent_slug) ==
    ChildTasks(pages, parent_slug, Hierarchy(pages, parent_slug, 1))

RECURSIVE ChildrenOfRoots(_, _)
ChildrenOfRoots(pages, roots) ==
    IF roots = <<>> THEN <<>>
    ELSE MigrateChildren(pages, pages[Head(roots)].slug) \o ChildrenOfRoots(pages, Tail(roots))

\* lines 130-138: _migrate_pages_hierarchical, as the calls it makes in order
MigratePagesHierarchical(pages) ==
    RootTasks(RootPages(pages, 1)) \o ChildrenOfRoots(pages, RootPages(pages, 1))

\* lines 153-158: slug.strip('/'), 'home' for the root page
WpSlug(page_slug) == IF StripSlashes(page_slug) = "" THEN "home" ELSE StripSlashes(page_slug)

PageSlugs == {"/", "/a", "/a/b", "/a/b/c", "/x/y", "/k"}

PageSet ==
    {[slug |-> s, title |-> "T"] : s \in PageSlugs \ {"/k"}}
    \cup {[slug |-> "/k", title |-> NULL]}

WpSlugs == {WpSlug(s) : s \in PageSlugs}

Site(existing) == [pages |-> [s \in WpSlugs |-> IF s \in existing THEN 100 ELSE 0], next_id |-> 1]

Sites == {Site({}), Site({"a"}), Site({"home", "a/b"})}

NewManager ==
    [at |-> "load", pages |-> <<>>, plan |-> <<>>, next |-> 1,
     page_mapping |-> [s \in PageSlugs |-> 0], fault |-> "none", menu_result |-> "none",
     success |-> FALSE]

InitMigration ==
    /\ pc = "migrating"
    /\ parsed_data \in [pages : SeqsUpTo(MaxPages, PageSet), menu : BOOLEAN]
    /\ manager = NewManager
    /\ wp \in Sites
    /\ history = <<>>
    /\ tracker = NewStatus
    /\ lock = 0
    /\ threads = <<>>
    /\ SlugIdle
    /\ ContentIdle
    /\ MenuIdle
    /\ ExportIdle
    /\ MergeIdle
    /\ StartIdle

MigrationFrame ==
    UNCHANGED <<pc, parsed_data, lock, threads, slugVars, contentVars, menuVars, exportVars,
                mergeVars, startVars>>

\* lines 119-128: the except clause of start_migration
Failed(mgr, fault) == [mgr EXCEPT !.at = "returned", !.fault = fault, !.success = FALSE]

\* lines 72-82: load_parsed_data returns the data, returns None or raises
LoadParsedData(loaded) ==
    /\ manager.at = "load"
    /\ IF loaded = "ok" /\ parsed_data.pages # <<>>
       THEN /\ manager' = [manager EXCEPT !.at = "connect", !.pages = parsed_data.pages]
            /\ UNCHANGED tracker
       ELSE /\ manager' = Failed(manager, "load")
            /\ tracker' = CompleteMigration(tracker, FALSE)
    /\ UNCHANGED <<wp, history>>
    /\ MigrationFrame

\* lines 84-101: validate_connection answers success, answers no success or
\* raises; then tracker.start_migration and analyze_page_hierarchy
ValidateConnection(answer) ==
    /\ manager.at = "connect"
    /\ IF answer = "ok"
       THEN /\ manager' = [manager EXCEPT !.at = "pages",
                                          !.plan = MigratePagesHierarchical(manager.pages)]
            /\ tracker' = TrackerStart(tracker, Len(manager.pages))
       ELSE /\ manager' = Failed(manager, "connect")
            /\ tracker' = CompleteMigration(tracker, FALSE)
    /\ UNCHANGED <<wp, history>>
    /\ MigrationFrame

CurrentTask == manager.plan[manager.next]

CurrentPage == manager.pages[CurrentTask.page]

\* the id mapped for the page itself in place of its parent's
OwnMappedId == manager.page_mapping[CurrentPage.slug]

\* line 142: self.page_mapping.get(parent_slug), None as 0
ParentId ==
    IF CurrentTask.parent = NULL THEN 0 ELSE manager.page_mapping[CurrentTask.parent]

Event(what, parent_id, wp_id) ==
    [page |-> CurrentTask.page, slug |-> CurrentPage.slug, outcome |-> what,
     parent_id |-> parent_id, wp_id |-> wp_id]

\* lines 163-172: the page exists on the site
SkipExisting ==
    /\ tracker' = LogPage(tracker, "skipped", CurrentPage.slug)
    /\ manager' = [manager EXCEPT
                      !.page_mapping[CurrentPage.slug] = wp.pages[WpSlug(CurrentPage.slug)],
                      !.next = @ + 1]
    /\ history' = Append(history, Event("skipped", 0, wp.pages[WpSlug(CurrentPage.slug)]))
    /\ UNCHANGED wp

\* lines 175-186: create_page answered success
Created ==
    /\ tracker' = LogPage(tracker, "success", CurrentPage.slug)
    /\ manager' = [manager EXCEPT !.page_mapping[CurrentPage.slug] = wp.next_id,
                                  !.next = @ + 1]
    /\ wp' = [wp EXCEPT !.pages[WpSlug(CurrentPage.slug)] = wp.next_id, !.next_id = @ + 1]
    /\ history' = Append(history, Event("created", ParentId, wp.next_id))

\* lines 187-191: create_page answered no success
NotCreated ==
    /\ tracker' = LogPage(tracker, "failure", CurrentPage.slug)
    /\ manager' = [manager EXCEPT !.next = @ + 1]
    /\ history' = Append(history, Event("failed", ParentId, 0))
    /\ UNCHANGED wp

\* lines 150-192: one call of _migrate_single_page; page['title'] of a page
\* without the key raises outside the try of the method
MigrateSinglePage(created) ==
    /\ manager.at = "pages"
    /\ manager.next <= Len(manager.plan)
    /\ IF CurrentPage.title = NULL
       THEN /\ manager' = Failed(manager, "exception")
            /\ tracker' = CompleteMigration(tracker, FALSE)
            /\ UNCHANGED <<wp, history>>
       ELSE IF wp.pages[WpSlug(CurrentPage.slug)] # 0 THEN SkipExisting
       ELSE IF created THEN Created
       ELSE NotCreated
    /\ MigrationFrame

\* lines 103-106 and 194-246: _process_menu logs what happened and returns
ProcessMenu(menu_result) ==
    /\ manager.at = "pages"
    /\ manager.next > Len(manager.plan)
    /\ manager' = [manager EXCEPT !.at = "complete",
                                  !.menu_result = IF parsed_data.menu THEN menu_result
                                                  ELSE "none"]
    /\ UNCHANGED <<tracker, wp, history>>
    /\ MigrationFrame

\* success whatever the pages did
AnySuccess(st) == TRUE

\* line 109: success = self.tracker.status['failed_pages'] == 0
Success(st) == st.failed_pages = 0

\* lines 108-117
Complete ==
    /\ manager.at = "complete"
    /\ tracker' = CompleteMigration(tracker, Success(tracker))
    /\ manager' = [manager EXCEPT !.at = "returned", !.success = TRUE]
    /\ UNCHANGED <<wp, history>>
    /\ MigrationFrame

NextMigration ==
    \/ \E loaded \in {"ok", "none", "raises"} : LoadParsedData(loaded)
    \/ \E answer \in {"ok", "refused", "raises"} : ValidateConnection(answer)
    \/ \E created \in BOOLEAN : MigrateSinglePage(created)
    \/ \E menu_result \in {"ok", "fails", "raises"} : ProcessMenu(menu_result)
    \/ Complete

SpecMigration == InitMigration /\ [][NextMigration]_vars

Returned == {inc \in BOOLEAN : result[inc].returned}

Blocks(inc) == result[inc].content

Candidates(inc) == result[inc].candidates

\* C1: the returned blocks are in document order of the elements that
\* produced them: whenever element A precedes element B in document order
\* and both yield a block, A's block comes before B's block.
C1_DocumentOrder ==
    \A inc \in Returned :
        \A i, j \in 1..Len(Candidates(inc)) :
            Candidates(inc)[i].element < Candidates(inc)[j].element => i < j

\* C2: no element contributes more than one block, and the block an element
\* contributes comes from the first rule of the chain whose condition the
\* element meets: no later rule examines an element an earlier rule claimed.
C2_OneBlockPerElement ==
    \A inc \in Returned :
        /\ \A i, j \in 1..Len(Candidates(inc)) :
              Candidates(inc)[i].element = Candidates(inc)[j].element => i = j
        /\ \A i \in 1..Len(Candidates(inc)) :
              /\ Guard(soup, gone, Candidates(inc)[i].element, inc,
                       Candidates(inc)[i].priority)
              /\ \A q \in 1..(Candidates(inc)[i].priority - 1) :
                    ~Guard(soup, gone, Candidates(inc)[i].element, inc, q)

\* an element meeting the conditions of two rules yielded its one block, and
\* an element claimed and rejected by rule 1 yielded none though it meets
\* the condition of rule 7
C2_Witness ==
    \E inc \in Returned :
        /\ \E i \in 1..Len(Candidates(inc)) :
              \E q \in (Candidates(inc)[i].priority + 1)..9 :
                  Guard(soup, gone, Candidates(inc)[i].element, inc, q)
        /\ \E e \in 1..Len(soup) :
              /\ e \notin gone
              /\ Guard(soup, gone, e, inc, 1)
              /\ Guard(soup, gone, e, inc, 7)
              /\ \A i \in 1..Len(Candidates(inc)) : Candidates(inc)[i].element # e

ItemSet(b) == {b.items[k] : k \in 1..Len(b.items)}

NotImage(b) == b.type # "image"

\* C10: the content returned with include_images=False holds no Image block
\* and is the content returned with include_images=True with its Image
\* blocks removed.
C10_ImagesOnlyRemoved ==
    (result[TRUE].returned /\ result[FALSE].returned) =>
        /\ \A i \in 1..Len(Blocks(FALSE)) : NotImage(Blocks(FALSE)[i])
        /\ Blocks(FALSE) = SelectSeq(Blocks(TRUE), NotImage)

\* both calls returned; with images the content has an Image block between
\* two other blocks
C10_Witness ==
    /\ result[TRUE].returned
    /\ result[FALSE].returned
    /\ \E i, j, k \in 1..Len(Blocks(TRUE)) :
          /\ i < j /\ j < k
          /\ NotImage(Blocks(TRUE)[i])
          /\ ~NotImage(Blocks(TRUE)[j])
          /\ NotImage(Blocks(TRUE)[k])
    /\ Len(Blocks(FALSE)) >= 2

\* C4: the menu has depth at most 2 and no untitled item: every top-level
\* item and every child under 'submenu' has a non-empty title, and a child
\* carries a title and a slug only, never children of its own.
C4_MenuDepthAndTitles ==
    menu.returned =>
        \A i \in DOMAIN menu.items :
            /\ menu.items[i].title # ""
            /\ \A j \in DOMAIN menu.items[i].submenu :
                  /\ menu.items[i].submenu[j].title # ""
                  /\ DOMAIN menu.items[i].submenu[j] = {"title", "slug"}

\* a menu with children came out of a document where a top-level link was
\* left out and the panel holds an untitled link and a hook-reference link
C4_Witness ==
    /\ menu.returned
    /\ \E i \in DOMAIN menu.items : menu.items[i].submenu # <<>>
    /\ Len(menu.items) < Len(MainMenuLinks(soup, FindNav(soup)))
    /\ \E k \in 1..Len(soup) :
          /\ soup[k].name = "a"
          /\ get_text(soup, {}, k) = ""
          /\ \E a \in Ancestors(soup, k) : soup[a].hook # ""
    /\ \E k \in 1..Len(soup) :
          /\ soup[k].name = "a"
          /\ StartsWith(soup[k].href, "#submenu:")
          /\ \E a \in Ancestors(soup, k) : soup[a].hook # ""

Finished == {r \in DOMAIN outcome : outcome[r].kind # "none"}

\* C7: parse_tilda_export reports failures as values and never as
\* exceptions: whatever the documents of the tree are, no call ends with an
\* exception reaching the caller.
C7_FailuresAsValues ==
    \A r \in Finished : outcome[r].kind # "raised"

\* C8: a call on a tree whose root directory is absent returns the 'root not
\* found' error value, and a call on a tree whose root exists but holds no
\* markup document returns the 'no documents found' error value; in both
\* cases the value carries no menu and no pages and nothing is raised.
C8_ErrorValues ==
    \A r \in Finished :
        /\ ~fs.isdir => outcome[r] = ErrorValue(RootNotFound)
        /\ (fs.isdir /\ find_html_files(fs) = <<>>) => outcome[r] = ErrorValue(NoHtmlFiles)

\* a call returned 'no documents found' on a root that is not empty: it
\* lists a file that is not markup and a 'files' directory holding a fragment
C8_Witness ==
    /\ \E r \in Finished : outcome[r] = ErrorValue(NoHtmlFiles)
    /\ fs.isdir
    /\ fs.files # <<>>
    /\ InSeq("files", fs.dirs)

TitledLink(k) == ~SkipTitle(get_text(soup, {}, k))

TitledLinks == SelectSeq(MainMenuLinks(soup, FindNav(soup)), TitledLink)

Squeeze(s) == Replace(s, " ", "")

\* no element of the document carries the hook the link refers to, spaces
\* aside
PanelAbsent(href) ==
    \A n \in 1..Len(soup) : soup[n].hook = "" \/ Squeeze(soup[n].hook) # Squeeze(href)

\* C11: a titled top-level link that is a hook reference ('#submenu:...')
\* whose panel is absent from the document yields exactly one menu item, at
\* the link's place, with the link's title, the destination '/' + lower-cased
\* title with spaces replaced by hyphens, and no children.
C11_PlaceholderItem ==
    (menu.returned /\ FindNav(soup) # 0) =>
        /\ Len(menu.items) = Len(TitledLinks)
        /\ \A i \in 1..Len(TitledLinks) :
              (/\ StartsWith(soup[TitledLinks[i]].href, "#submenu:")
               /\ PanelAbsent(soup[TitledLinks[i]].href)) =>
                  menu.items[i] =
                      [title |-> get_text(soup, {}, TitledLinks[i]),
                       slug |-> "/" \o Replace(Lower(get_text(soup, {}, TitledLinks[i])), " ", "-"),
                       submenu |-> <<>>]

\* a menu of two items came out whose second link is a hook reference without
\* a panel
C11_Witness ==
    /\ menu.returned
    /\ FindNav(soup) # 0
    /\ Len(TitledLinks) = 2
    /\ StartsWith(soup[TitledLinks[2]].href, "#submenu:")
    /\ PanelAbsent(soup[TitledLinks[2]].href)
    /\ menu.items[2].title = "Sales"

\* a two-file document whose shell and fragment both parsed and both hold the
\* main-content container went through get_combined_soup
Merged ==
    /\ pc = "combined"
    /\ two_files.body_exists
    /\ two_files.main.decodable
    /\ two_files.body.decodable
    /\ AllRecords(two_files.main.dom) # 0
    /\ AllRecords(two_files.body.dom) # 0

Depth(d, k) == Cardinality(Ancestors(d, k))

\* name, classes, text and depth below root of the nodes, in document order
Outline(d, root, nodes) ==
    [i \in 1..Len(nodes) |->
        <<d[nodes[i]].name, d[nodes[i]].class, d[nodes[i]].str,
          Depth(d, nodes[i]) - Depth(d, root)>>]

\* the subtrees of the element children of root, in document order
ElementSubtrees(d, root) ==
    InOrder({k \in Descendants(d, root) :
                \/ d[k].parent = root /\ IsTag(d, k)
                \/ \E a \in Ancestors(d, k) : d[a].parent = root /\ IsTag(d, a)})

PageAt(path) == PageOf(path, get_combined_soup(fs, path), include_images)

\* the pages of the documents with content, in the order of the documents
RECURSIVE PagesWithContent(_)
PagesWithContent(paths) ==
    IF paths = <<>> THEN <<>>
    ELSE (IF PageAt(Head(paths)).content # <<>> THEN <<PageAt(Head(paths))>> ELSE <<>>)
         \o PagesWithContent(Tail(paths))

\* C13: the pages of a returned export are exactly the discovered documents
\* whose content is not empty, in discovery order: a document with empty
\* content is left out and the batch goes on, and no other document is left
\* out, repeated or moved.
C13_PagesAreDocumentsWithContent ==
    \A r \in Finished :
        outcome[r].kind = "data" =>
            outcome[r].pages = PagesWithContent(find_html_files(fs))

\* an export of two pages was returned for three discovered documents, the
\* first of which has no content
C13_Witness ==
    /\ \E r \in Finished : outcome[r].kind = "data" /\ Len(outcome[r].pages) = 2
    /\ Len(find_html_files(fs)) = 3
    /\ find_html_files(fs)[1] = Join(ExtractedDir, "empty.html")

\* the discovered documents that read and have content, in discovery order
RECURSIVE DocsWithContent(_)
DocsWithContent(paths) ==
    IF paths = <<>> THEN <<>>
    ELSE (IF PageAt(Head(paths)).content # <<>> THEN <<Head(paths)>> ELSE <<>>)
         \o DocsWithContent(Tail(paths))

\* the trimmed text of the title tag, 'Untitled' without a tag or without text
TitleOrUntitled(t) == IF t = NULL \/ Strip(t) = "" THEN "Untitled" ELSE Strip(t)

\* C14: the title of every page of the export is the trimmed text of the
\* document's title tag, and 'Untitled' when the tag is absent, has no text or
\* has only whitespace; deriving the title never fails, so a call ends with
\* an exception only when some file could not be read.
C14_TitleDerivation ==
    \A r \in Finished :
        /\ outcome[r].kind = "data" =>
              \A i \in 1..Len(outcome[r].pages) :
                  outcome[r].pages[i].title =
                      TitleOrUntitled(get_combined_soup(fs, DocsWithContent(html_files)[i]).title)
        /\ outcome[r].kind = "raised" =>
              \E i \in 1..Len(html_files) : get_combined_soup(fs, html_files[i]).raised

\* an absolute path, an external value, or the slug built from the title
Destination(item) ==
    /\ item.slug # ""
    /\ \/ StartsWith(item.slug, "/")
       \/ StartsWith(item.slug, "http")
       \/ StartsWith(item.slug, "mailto:")
       \/ StartsWith(item.slug, "tel:")
       \/ item.slug = "/" \o Replace(Lower(item.title), " ", "-")

\* C15: every menu item, top-level or child, has a destination that is an
\* absolute path starting with '/', an external URL / mailto: / tel: value,
\* or the slug derived from its title; no menu item has an empty
\* destination, whatever the href of its link.
C15_DestinationNeverEmpty ==
    menu.returned =>
        \A i \in 1..Len(menu.items) :
            /\ Destination(menu.items[i])
            /\ \A j \in 1..Len(menu.items[i].submenu) : Destination(menu.items[i].submenu[j])

\* C16: for a document without a main-content container (no div with id
\* 'allrecords') parse_page_content returns an empty content list.
C16_NoContainerNoContent ==
    \A inc \in Returned :
        AllRecords(soup) = 0 => Blocks(inc) = <<>>

\* the style of element e asks for a heavy font weight
Heavy(e) ==
    Contains(soup[e].style, "font-weight:700") \/ Contains(soup[e].style, "font-weight:600")

HeadingInside(e) ==
    \E k \in Descendants(soup, e) \ gone : soup[k].name \in {"h1", "h2", "h3", "h4", "h5", "h6"}

\* C17: the block of a text atom (rule P1) is a Heading exactly when its text
\* is under 150 characters and it is all-caps, or title-case, or holds a
\* heading tag, or is styled with a heavy font weight; in particular a short
\* atom with a heavy font weight alone is a Heading, and an atom that is not
\* short or meets none of the four conditions is a Paragraph.
C17_AtomHeadingOrParagraph ==
    \A inc \in Returned :
        \A i \in 1..Len(Candidates(inc)) :
            Candidates(inc)[i].priority = 1 =>
                /\ Candidates(inc)[i].type \in {"heading", "paragraph"}
                /\ (Candidates(inc)[i].type = "heading") =
                      (/\ Len(Candidates(inc)[i].text) < 150
                       /\ \/ IsUpper(Candidates(inc)[i].text)
                          \/ IsTitle(Candidates(inc)[i].text)
                          \/ HeadingInside(Candidates(inc)[i].element)
                          \/ Heavy(Candidates(inc)[i].element))

\* a short atom in plain lower case without a heading tag, heavy by its style
\* alone, came out as a Heading
C17_Witness ==
    \E inc \in Returned :
        \E i \in 1..Len(Candidates(inc)) :
            /\ Candidates(inc)[i].priority = 1
            /\ Candidates(inc)[i].type = "heading"
            /\ Candidates(inc)[i].text = "some text"
            /\ Heavy(Candidates(inc)[i].element)
            /\ ~HeadingInside(Candidates(inc)[i].element)

\* element k is a header, a footer, a nav, or carries a navigation marker
NavigationRegion(k) ==
    \/ soup[k].name \in {"header", "footer", "nav"}
    \/ soup[k].class \cap {"t228", "t794", "t-menu"} # {}

\* C18: no block originates from an element that is, or lies inside, a
\* header, a footer or an element marked as navigation (t228, t794, t-menu),
\* whatever the tag of the marked element.
C18_NoBlockFromNavigation ==
    \A inc \in Returned :
        \A i \in 1..Len(Candidates(inc)) :
            /\ ~NavigationRegion(Candidates(inc)[i].element)
            /\ \A a \in Ancestors(soup, Candidates(inc)[i].element) : ~NavigationRegion(a)

\* href without its last five characters, the extension '.html'
WithoutExtension(href) == Mid(href, 1, Len(href) - 5)

\* the destination of a direct link by the first matching rule
RuleDestination(title, href) ==
    IF StartsWith(href, "/") THEN href
    ELSE IF EndsWith(href, ".html")
    THEN (IF WithoutExtension(href) = "index" THEN "/" ELSE "/" \o WithoutExtension(href))
    ELSE IF \/ StartsWith(href, "http") \/ StartsWith(href, "mailto:")
            \/ StartsWith(href, "tel:")
    THEN href
    ELSE "/" \o Replace(Lower(title), " ", "-")

\* C19: the destination of a top-level link that is not a hook reference is
\* chosen by the first matching rule: href starting with '/' verbatim; else
\* href ending in '.html' becomes '/' + href without the extension, the index
\* document becoming '/'; else an external href (http, https, mailto:, tel:)
\* verbatim; else '/' + lower-cased title with spaces replaced by hyphens.
C19_DirectLinkDestination ==
    (menu.returned /\ FindNav(soup) # 0 /\ Len(menu.items) = Len(TitledLinks)) =>
        \A i \in 1..Len(TitledLinks) :
            ~StartsWith(soup[TitledLinks[i]].href, "#submenu:") =>
                menu.items[i].slug =
                    RuleDestination(menu.items[i].title, soup[TitledLinks[i]].href)

\* the panel a hook reference points to, spaces aside; 0 when there is none
PanelOf(href) ==
    First({n \in 1..Len(soup) :
              /\ soup[n].name = "div"
              /\ soup[n].hook # ""
              /\ Squeeze(soup[n].hook) = Squeeze(href)})

\* the titles of the titled links of panel p, in document order
RECURSIVE TitlesOf(_)
TitlesOf(links) ==
    IF links = <<>> THEN <<>>
    ELSE (IF get_text(soup, {}, Head(links)) = "" THEN <<>>
          ELSE <<get_text(soup, {}, Head(links))>>)
         \o TitlesOf(Tail(links))

PanelTitles(p) == TitlesOf(InOrder({k \in Descendants(soup, p) : soup[k].name = "a"}))

ChildTitles(item) == [j \in 1..Len(item.submenu) |-> item.submenu[j].title]

\* s with its last path segment removed
DropSegment(s) == Mid(s, 1, RFind(s, "/") - 1)

\* the items of the hook references whose panel is in the document
HookItems ==
    IF menu.returned /\ FindNav(soup) # 0 /\ Len(menu.items) = Len(TitledLinks)
    THEN {i \in 1..Len(TitledLinks) :
             /\ StartsWith(soup[TitledLinks[i]].href, "#submenu:")
             /\ PanelOf(soup[TitledLinks[i]].href) # 0}
    ELSE {}

\* C20 as stated: for a hook reference whose panel is found, the children are
\* the panel's titled links in order; with at least one child the item's
\* destination is the first child's destination with one trailing path
\* segment removed, and without a child it is the slug built from the title.
C20_ParentFromFirstChild ==
    \A i \in HookItems :
        /\ ChildTitles(menu.items[i]) = PanelTitles(PanelOf(soup[TitledLinks[i]].href))
        /\ menu.items[i].submenu # <<>> =>
              \/ menu.items[i].slug = DropSegment(menu.items[i].submenu[1].slug)
              \/ /\ DropSegment(menu.items[i].submenu[1].slug) = ""
                 /\ menu.items[i].slug = "/"
        /\ menu.items[i].submenu = <<>> =>
              menu.items[i].slug = "/" \o Replace(Lower(menu.items[i].title), " ", "-")

\* C20 amended: the first child's destination is cut by one segment only when
\* it holds more than one '/'; otherwise, as without any child, the item's
\* destination is the slug built from its title.
C20_ParentFromFirstChildAmended ==
    \A i \in HookItems :
        /\ ChildTitles(menu.items[i]) = PanelTitles(PanelOf(soup[TitledLinks[i]].href))
        /\ menu.items[i].slug =
              IF /\ menu.items[i].submenu # <<>>
                 /\ Count(menu.items[i].submenu[1].slug, "/") > 1
              THEN DropSegment(menu.items[i].submenu[1].slug)
              ELSE "/" \o Replace(Lower(menu.items[i].title), " ", "-")

\* a hook reference found its panel under the other spelling of the hook and
\* took '/services' from its first child '/services/repair'
C20_Witness ==
    \E i \in HookItems :
        /\ soup[PanelOf(soup[TitledLinks[i]].href)].hook # soup[TitledLinks[i]].href
        /\ Len(menu.items[i].submenu) = 2
        /\ menu.items[i].submenu[1].slug = "/services/repair"
        /\ menu.items[i].slug = "/services"

\* a link or button element carrying the button marker, or the tool-atom
\* marker, outside nav, header and footer
ButtonStyled(e) ==
    /\ soup[e].name \in {"a", "button"}
    /\ soup[e].class \cap {"t-btn", "tn-atom"} # {}
    /\ e \notin gone
    /\ ~HasParentNamed(soup, e, {"nav", "header", "footer"})

GenericLabels == {"menu", "home", "contact", "call us"}

\* the text is marked by the candidate of some other element
SeenElsewhere(inc, e, t) ==
    \E i \in 1..Len(Candidates(inc)) :
        Candidates(inc)[i].element # e /\ t \in MarkedTexts(Candidates(inc)[i])

ButtonBlock(e) ==
    [type |-> "button", text |-> get_text(soup, gone, e), href |-> soup[e].href,
     src |-> "", alt |-> "", items |-> <<>>]

\* C21: a link or button element with the button marker or the tool-atom
\* marker, outside nav/header/footer, whose trimmed text has 2 to 50
\* characters, is no generic label and was not already seen, yields exactly
\* one Button block with its text and href.
C21_ButtonBlock ==
    \A inc \in Returned :
        \A e \in 1..Len(soup) :
            ( /\ ButtonStyled(e)
              /\ Len(get_text(soup, gone, e)) >= 2
              /\ Len(get_text(soup, gone, e)) <= 50
              /\ Lower(get_text(soup, gone, e)) \notin GenericLabels
              /\ ~SeenElsewhere(inc, e, get_text(soup, gone, e)) )
            => Cardinality({i \in 1..Len(Blocks(inc)) :
                               /\ Candidates(inc)[i].element = e
                               /\ Blocks(inc)[i] = ButtonBlock(e)}) = 1

\* a ul/ol the loop visits, no navigation-marked div above it
ListOutsideNavigation(e) ==
    /\ soup[e].name \in {"ul", "ol"}
    /\ e \notin gone
    /\ ~Skipped(soup, e)
    /\ ~\E a \in Ancestors(soup, e) : soup[a].name = "div" /\ HasNavMarker(soup, a)

\* the li below e, in document order
ItemsOf(e) == InOrder({k \in Descendants(soup, e) \ gone : soup[k].name = "li"})

\* the texts of the elements es that are not empty and not in S, in order
RECURSIVE TextsOutside(_, _)
TextsOutside(es, S) ==
    IF es = <<>> THEN <<>>
    ELSE (IF get_text(soup, gone, Head(es)) \in S \cup {""} THEN <<>>
          ELSE <<get_text(soup, gone, Head(es))>>)
         \o TextsOutside(Tail(es), S)

\* the non-empty texts of the li below e, in document order
NonEmptyItems(e) == TextsOutside(ItemsOf(e), {})

ListBlocksOf(inc, e) ==
    {i \in 1..Len(Candidates(inc)) :
        Candidates(inc)[i].element = e /\ Candidates(inc)[i].type = "list"}

\* C22: a ul/ol outside navigation with more than one non-empty item yields
\* a List block whose items are the list's non-empty item texts in document
\* order; a list with at most one non-empty item yields no List block.
C22_ListBlock ==
    \A inc \in Returned :
        \A e \in 1..Len(soup) :
            ListOutsideNavigation(e) =>
                IF Len(NonEmptyItems(e)) > 1
                THEN /\ Cardinality(ListBlocksOf(inc, e)) = 1
                     /\ \A i \in ListBlocksOf(inc, e) :
                           Blocks(inc)[i].items = NonEmptyItems(e)
                ELSE ListBlocksOf(inc, e) = {}

\* the texts marked by the blocks of the elements before e
SeenBefore(inc, e) ==
    UNION {MarkedTexts(Candidates(inc)[i]) :
              i \in {j \in 1..Len(Candidates(inc)) : Candidates(inc)[j].element < e}}

\* the item texts of e that are not empty and were not seen before e
FreshItems(inc, e) == TextsOutside(ItemsOf(e), SeenBefore(inc, e))

\* C22 (amended): a ul/ol outside navigation yields a List block exactly
\* when more than one of its item texts is non-empty and not already seen
\* earlier in the document, and the block's items are those texts in
\* document order.
C22_ListBlockOfFreshItems ==
    \A inc \in Returned :
        \A e \in 1..Len(soup) :
            ListOutsideNavigation(e) =>
                IF Len(FreshItems(inc, e)) > 1
                THEN /\ Cardinality(ListBlocksOf(inc, e)) = 1
                     /\ \A i \in ListBlocksOf(inc, e) :
                           Blocks(inc)[i].items = FreshItems(inc, e)
                ELSE ListBlocksOf(inc, e) = {}

\* a list of three non-empty items, one of them seen before, yields a List
\* block of the two others
C22_Witness ==
    \E inc \in Returned :
        \E e \in 1..Len(soup) :
            /\ ListOutsideNavigation(e)
            /\ Len(NonEmptyItems(e)) = 3
            /\ Len(FreshItems(inc, e)) = 2
            /\ \E i \in ListBlocksOf(inc, e) : Blocks(inc)[i].items = FreshItems(inc, e)

TextBearing == {"heading", "paragraph", "button"}

\* the texts of the text-bearing blocks of one content
BlockTexts(content) ==
    {content[i].text : i \in {j \in 1..Len(content) : content[j].type \in TextBearing}}

\* what the document at path yields when it is parsed on its own
OwnContent(path) == parse_page_content(get_combined_soup(fs, path).dom, {}, include_images)

\* the slug the document at path gets
OwnSlug(path) == get_page_slug(path, get_combined_soup(fs, path).og)

\* C23: within one page's content no two text-bearing blocks (Heading,
\* Paragraph, Button) carry the same text, and the set of texts already seen
\* is local to one document: every text a document yields on its own is in
\* its page of the export, whatever the pages before it have emitted.
C23_NoRepeatedTextPerPage ==
    \A r \in Finished :
        outcome[r].kind = "data" =>
            /\ \A p \in 1..Len(outcome[r].pages) :
                  \A i, j \in 1..Len(outcome[r].pages[p].content) :
                      ( /\ outcome[r].pages[p].content[i].type \in TextBearing
                        /\ outcome[r].pages[p].content[j].type \in TextBearing
                        /\ outcome[r].pages[p].content[i].text
                              = outcome[r].pages[p].content[j].text ) => i = j
            /\ \A k \in 1..Len(html_files) :
                  \A t \in BlockTexts(OwnContent(html_files[k])) :
                      \E p \in 1..Len(outcome[r].pages) :
                          /\ outcome[r].pages[p].slug = OwnSlug(html_files[k])
                          /\ t \in BlockTexts(outcome[r].pages[p].content)

\* an export of two pages that both carry the text 'Alfa', the second from a
\* document in which three elements hold that text
C23_Witness ==
    /\ \E r \in Finished :
          /\ outcome[r].kind = "data"
          /\ Len(outcome[r].pages) = 2
          /\ "Alfa" \in BlockTexts(outcome[r].pages[1].content)
          /\ "Alfa" \in BlockTexts(outcome[r].pages[2].content)
    /\ Len(html_files) = 2
    /\ html_files[2] = Join(ExtractedDir, "pages/team.html")

\* the markup files of one listing, as paths, in listing order
RECURSIVE MarkupPaths(_, _)
MarkupPaths(root, files) ==
    IF files = <<>> THEN <<>>
    ELSE (IF EndsWith(Lower(Head(files)), ".html") THEN <<Join(root, Head(files))>> ELSE <<>>)
         \o MarkupPaths(root, Tail(files))

\* the markup files of the sub-directories that are no fragments directory
RECURSIVE SubdirMarkup(_)
SubdirMarkup(dirs) ==
    IF dirs = <<>> THEN <<>>
    ELSE (IF Head(dirs) = "files" THEN <<>>
          ELSE MarkupPaths(Join(ExtractedDir, Head(dirs)), DirListing(Head(dirs))))
         \o SubdirMarkup(Tail(dirs))

\* every markup file outside the fragments directories, in walk order
Discovered == MarkupPaths(ExtractedDir, fs.files) \o SubdirMarkup(fs.dirs)

\* the members of q that are (keep) or are not (~keep) root-level index
\* documents, in the order of q
RECURSIVE IndexPart(_, _)
IndexPart(q, keep) ==
    IF q = <<>> THEN <<>>
    ELSE (IF IsRootIndex(Head(q)) = keep THEN <<Head(q)>> ELSE <<>>)
         \o IndexPart(Tail(q), keep)

RECURSIVE Without(_, _)
Without(q, x) ==
    IF q = <<>> THEN <<>>
    ELSE (IF Head(q) = x THEN <<>> ELSE <<Head(q)>>) \o Without(Tail(q), x)

\* find_html_files has returned a sequence of documents
Discovery == pc \in {"export_menu", "export_pages"}

OnceEach(q) ==
    /\ \A i, j \in 1..Len(q) : q[i] = q[j] => i = j
    /\ {q[i] : i \in 1..Len(q)} = {Discovered[i] : i \in 1..Len(Discovered)}

MenuFromFirst ==
    \A r \in Finished :
        outcome[r].kind = "data" =>
            outcome[r].menu = parse_menu(get_combined_soup(fs, html_files[1]).dom)

\* C24: find_html_files returns a root-level index document, if there is
\* one, as the first element, followed by all other discovered documents in
\* walk order; every markup file outside the fragments directories appears
\* exactly once, and the menu is extracted from the first element.
C24_IndexFirstThenWalkOrder ==
    /\ Discovery =>
          /\ OnceEach(html_files)
          /\ IF IndexPart(Discovered, TRUE) = <<>> THEN html_files = Discovered
             ELSE /\ IsRootIndex(html_files[1])
                  /\ Tail(html_files) = Without(Discovered, html_files[1])
    /\ MenuFromFirst

\* the parse of the document at path from its own files: the main file, with
\* the fragment of its body file merged in when there is one
OwnTree(path) ==
    IF Exists(fs, Dirname(path), "files", BodyName(Basename(path)))
    THEN Merge(FileContent(path).dom, FileContent(body_file_path(path)).dom)
    ELSE FileContent(path).dom

\* what the document's own files and the flag determine
ContentOfOwnFiles(path) == parse_page_content(OwnTree(path), {}, include_images)

SlugOfOwnFiles(path) == get_page_slug(path, FileContent(path).og)

\* C25: the content of every page of an export is what the page's own files
\* and include_images determine, whatever documents were processed before
\* it, and the menu is what the primary document's own files determine, in
\* the first call and in a call made after content extraction has run on
\* the primary document.
C25_NoSharedState ==
    \A r \in Finished :
        outcome[r].kind = "data" =>
            /\ \A p \in 1..Len(outcome[r].pages) :
                  \E k \in 1..Len(html_files) :
                      /\ outcome[r].pages[p].slug = SlugOfOwnFiles(html_files[k])
                      /\ outcome[r].pages[p].content = ContentOfOwnFiles(html_files[k])
            /\ \A k \in 1..Len(html_files) :
                  ContentOfOwnFiles(html_files[k]) # <<>> =>
                      \E p \in 1..Len(outcome[r].pages) :
                          /\ outcome[r].pages[p].slug = SlugOfOwnFiles(html_files[k])
                          /\ outcome[r].pages[p].content = ContentOfOwnFiles(html_files[k])
            /\ outcome[r].menu = parse_menu(OwnTree(html_files[1]))

\* the second call returned a menu from a primary document whose navigation
\* the content extraction of the first call has removed from the tree it
\* walked, with another page processed behind the primary document
C25_Witness ==
    /\ 2 \in Finished
    /\ outcome[2].kind = "data"
    /\ outcome[2].menu # <<>>
    /\ Len(outcome[2].pages) >= 2
    /\ \E k \in GoneAfter(OwnTree(html_files[1]), {}) : OwnTree(html_files[1])[k].name = "nav"

\* C26: at most one migration runs per project at any time: a request made
\* while a migration of its project is running is rejected, so no two
\* migrations of one project run together, and the entry of a migration
\* between its registration and its end is its own: no other thread has
\* replaced or removed it.
C26_OneMigrationPerProject ==
    /\ \A r, q \in Running : requests[r].project = requests[q].project => r = q
    /\ \A r \in DOMAIN requests :
          requests[r].at = "migrating" => active_migrations[requests[r].project] = r

\* the counters of a status agree with each other and with its entries
Consistent(st) ==
    /\ st.processed_pages = st.successful_pages + st.failed_pages + Len(st.warnings)
    /\ st.failed_pages = Len(st.errors)

MigrationReturned == manager.at = "returned"

\* how often page i of the parsed data was handed to _migrate_single_page
TimesProcessed(i) == Cardinality({e \in 1..Len(history) : history[e].page = i})

\* C27: when start_migration ends with tracker status 'completed', every
\* page of the parsed data has been processed exactly once (created, skipped
\* or failed) and processed_pages equals total_pages, for every set of page
\* slugs, child pages without a parent page included.
C27_CompletedMeansAllProcessed ==
    (MigrationReturned /\ tracker.status = "completed") =>
        /\ \A i \in 1..Len(manager.pages) : TimesProcessed(i) = 1
        /\ tracker.processed_pages = tracker.total_pages

ChildEvent(e) == ~IsRootPage(history[e].slug)

\* the events before e that processed a page with the parent path of e
ParentEvents(e) ==
    {p \in 1..(e - 1) : history[p].slug = ParentPath(history[e].slug)}

\* those that left the parent with a page id: created or already existing
ParentsWithId(e) == {p \in ParentEvents(e) : history[p].outcome \in {"created", "skipped"}}

LastOf(S) == CHOOSE x \in S : \A y \in S : y <= x

\* C28: a child page is handed over only after a page with its parent path
\* has been processed; when it is submitted for creation and the parent was
\* created or already existed, the parent id sent is the parent's page id;
\* and every root-level page is processed before any child page.
C28_ParentBeforeChild ==
    \A e \in 1..Len(history) :
        /\ ChildEvent(e) =>
              /\ ParentEvents(e) # {}
              /\ (history[e].outcome \in {"created", "failed"} /\ ParentsWithId(e) # {}) =>
                    /\ history[e].parent_id = history[LastOf(ParentsWithId(e))].wp_id
                    /\ history[e].parent_id # 0
        /\ \A c \in 1..Len(history) : (ChildEvent(c) /\ ~ChildEvent(e)) => e < c

\* a child was created under a parent that already existed on the site, and
\* a grandchild under the child created in this run
C28_Witness ==
    \E p, c, g \in 1..Len(history) :
        /\ p < c /\ c < g
        /\ history[p].slug = "/a" /\ history[p].outcome = "skipped"
        /\ history[c].slug = "/a/b" /\ history[c].outcome = "created"
        /\ history[c].parent_id = history[p].wp_id
        /\ history[g].slug = "/a/b/c" /\ history[g].outcome = "created"
        /\ history[g].parent_id = history[c].wp_id

\* the status is one of the two final ones
Terminal(st) == st.status \in {"completed", "failed"}

\* C30: every call of start_migration that got past the creation of the
\* tracker ends with a terminal status: 'completed' exactly when the page
\* phase was reached and passed without an exception and no page failed,
\* otherwise 'failed'; a failure to load data, to connect, or an exception
\* ends in 'failed', the outcome of the menu creation does not matter, and
\* a terminal status is never left again.
C30_EndsTerminal ==
    /\ MigrationReturned =>
          /\ Terminal(tracker)
          /\ tracker.status = "completed" <=>
                (manager.fault = "none" /\ tracker.failed_pages = 0)
          /\ manager.fault # "none" => tracker.status = "failed"
    /\ Terminal(tracker) => MigrationReturned

\* a run ended 'completed' although the menu creation failed, after a page
\* was created and another was skipped
C30_Witness ==
    /\ MigrationReturned
    /\ tracker.status = "completed"
    /\ manager.menu_result = "fails"
    /\ tracker.successful_pages >= 1
    /\ Len(tracker.warnings) >= 1

==============================================================================
